---- MODULE Spec2Model ----
(***************************************************************************)
(* Model of the drain-flow streaming log classifier: the string interner,  *)
(* the token stream built from a raw line, records, log groups and the     *)
(* two-level index SingleLayer (drains/simple.rs; lib.rs holds the same    *)
(* code under the name SimpleDrain).                                       *)
(*                                                                         *)
(* A line is a sequence of one-byte characters, an atom is a non-empty     *)
(* sequence of non-whitespace characters, a symbol is the 1-based position *)
(* of an atom in the interner table.  Positions inside a token stream are  *)
(* 0-based as in the source; TLA+ sequences are 1-based, hence the "+ 1"   *)
(* where a stream is indexed.                                              *)
(***************************************************************************)
EXTENDS Integers, Sequences, FiniteSets, TLC

(***************************************************************************)
(* Bounds of the model.                                                    *)
(***************************************************************************)
\* number of process_line calls on lines with at least one atom in one run
MaxLines == 3
\* number of set_threshold calls in one run
MaxSets == 1

VARIABLES
    drain,      \* the SingleLayer value: domain, base_layer, threshold
    INTERNER,   \* the process-wide string interner: table of interned atoms
    ksuid,      \* number of Ksuid values handed out so far
    last,       \* the last call made on the index and what it returned
    origin,     \* group id -> token stream of the record that created the group
    calls,      \* how many calls were made: process_line on a line with at
                \* least one atom, set_threshold, new, Record::new
    lock,       \* the RwLock around the interner: the thread that holds it
                \* for writing (0 for none) and the threads that hold it
                \* for reading
    pc,         \* thread -> where the thread is in a call that takes the lock
                \* and what the thread owns
    statics     \* the lazy statics ASTERISK and GROKKER_SYMS: "uninit",
                \* "running" while a thread initialises it, "done"

vars == <<drain, INTERNER, ksuid, last, origin, calls, lock, pc, statics>>

(***************************************************************************)
(* Small helpers.                                                          *)
(***************************************************************************)
Min(a, b) == IF a <= b THEN a ELSE b

RECURSIVE Gcd(_, _)
Gcd(a, b) == IF b = 0 THEN a ELSE Gcd(b, a % b)

RECURSIVE SetToSeq(_)
SetToSeq(S) ==
    IF S = {} THEN <<>>
    ELSE LET m == CHOOSE x \in S : \A y \in S : x <= y
         IN <<m>> \o SetToSeq(S \ {m})

(***************************************************************************)
(* Tokens (record/tokens.rs).                                              *)
(***************************************************************************)
Grokker == {"Base10Integer", "Base10Float", "Base16Integer", "Base16Float",
            "UUID", "MAC", "IPv6", "IPv4", "Hostname", "Month", "Day"}

Wildcard == [kind |-> "Wildcard"]
TypedMatch(g) == [kind |-> "TypedMatch", grokker |-> g]
Value(v) == [kind |-> "Value", value |-> v]
TypedToken_String(sym) == [kind |-> "String", sym |-> sym]
TypedToken_Int(i) == [kind |-> "Int", int |-> i]
\* an f64 with at most one decimal place, held as its number of tenths
TypedToken_Float(tenths) == [kind |-> "Float", tenths |-> tenths]

\* #[derive(PartialEq)] on Token and TypedToken: same variant, equal fields
Token_eq(a, b) == a = b

Offset(start, end) == [start |-> start, end |-> end]

(***************************************************************************)
(* The interner: StringInterner::get_or_intern and resolve.                *)
(***************************************************************************)
\* variant: only the first string of the table is recognised
Lookup_first_only(table, s) ==
    IF Len(table) >= 1 /\ table[1] = s THEN 1 ELSE 0

\* the symbol of an interned string, 0 when the string is not in the table
Lookup(table, s) ==
    LET found == {i \in 1..Len(table) : table[i] = s}
    IN IF found = {} THEN 0 ELSE CHOOSE i \in found : TRUE

\* variant: every call appends the string and hands out a new symbol
get_or_intern_always_new(table, s) ==
    [sym |-> Len(table) + 1, table |-> Append(table, s)]

get_or_intern(table, s) ==
    LET sym == Lookup(table, s)
    IN IF sym # 0
       THEN [sym |-> sym, table |-> table]
       ELSE [sym |-> Len(table) + 1, table |-> Append(table, s)]

\* Record::resolve: an Option<String>, None for a symbol that is not in
\* the table
Record_resolve(table, sym) ==
    IF sym \in 1..Len(table)
    THEN [some |-> TRUE, string |-> table[sym]]
    ELSE [some |-> FALSE]

\* resolve(sym).expect("symbols must resolve"): the string of a symbol of
\* the table, a panic for any other symbol
resolve(table, sym) ==
    LET found == Record_resolve(table, sym)
    IN IF found.some
       THEN [ret |-> "Ok", string |-> found.string]
       ELSE [ret |-> "Panic"]

(***************************************************************************)
(* TokenStream::from_unicode_line.                                         *)
(***************************************************************************)
\* u8::is_ascii_whitespace: space, tab, line feed, form feed, carriage return
AsciiWhitespace == {" ", "\t", "\n", "\f", "\r"}

\* str::split_ascii_whitespace: the maximal runs of non-whitespace bytes
RECURSIVE SplitFrom(_, _, _)
SplitFrom(line, i, cur) ==
    IF i > Len(line)
    THEN IF cur = <<>> THEN <<>> ELSE <<cur>>
    ELSE IF line[i] \in AsciiWhitespace
         THEN IF cur = <<>> THEN SplitFrom(line, i + 1, <<>>)
              ELSE <<cur>> \o SplitFrom(line, i + 1, <<>>)
         ELSE SplitFrom(line, i + 1, Append(cur, line[i]))

split_ascii_whitespace(line) == SplitFrom(line, 1, <<>>)

MatchesAt(line, w, i) ==
    /\ i + Len(w) <= Len(line)
    /\ \A k \in 1..Len(w) : line[i + k] = w[k]

\* variant: the first match is taken wherever the scan has got to
RECURSIVE match_indices_find_first(_, _, _, _)
match_indices_find_first(line, w, i, progress) ==
    IF i + Len(w) > Len(line) THEN -1
    ELSE IF MatchesAt(line, w, i) THEN i
         ELSE match_indices_find_first(line, w, i + 1, progress)

\* variant: a match must start after the end of the previous token
RECURSIVE match_indices_find_after(_, _, _, _)
match_indices_find_after(line, w, i, progress) ==
    IF i + Len(w) > Len(line) THEN -1
    ELSE IF MatchesAt(line, w, i)
         THEN IF i > progress THEN i
              ELSE match_indices_find_after(line, w, i + Len(w), progress)
         ELSE match_indices_find_after(line, w, i + 1, progress)

\* line.match_indices(w).find(|(i, _)| i >= &progress): match_indices
\* yields the 0-based starts of the non-overlapping matches of w from the
\* left, find returns the first one not before progress; -1 stands for None
RECURSIVE match_indices_find(_, _, _, _)
match_indices_find(line, w, i, progress) ==
    IF i + Len(w) > Len(line) THEN -1
    ELSE IF MatchesAt(line, w, i)
         THEN IF i >= progress THEN i
              ELSE match_indices_find(line, w, i + Len(w), progress)
         ELSE match_indices_find(line, w, i + 1, progress)

\* variant: an atom of decimal digits becomes a typed token
word_token_inferred(w, sym) ==
    IF \A i \in 1..Len(w) : w[i] \in {"0", "1", "2"}
    THEN TypedMatch("Base10Integer")
    ELSE Value(TypedToken_String(sym))

\* the token built for an atom: Token::Value(TypedToken::String(symbol))
word_token(w, sym) == Value(TypedToken_String(sym))

\* the filter_map closure, one atom at a time: acc is the stream built so
\* far, the running progress and the interner table
RECURSIVE ScanWords(_, _, _)
ScanWords(line, words, acc) ==
    IF words = <<>> THEN acc
    ELSE LET w == Head(words)
             start == match_indices_find(line, w, 0, acc.progress)
             end == start + Len(w)
             got == get_or_intern(acc.table, w)
         IN IF start = -1
            THEN ScanWords(line, Tail(words), acc)
            ELSE ScanWords(line, Tail(words),
                    [inner |-> Append(acc.inner,
                                 [offset |-> Offset(start, end),
                                  token |-> word_token(w, got.sym)]),
                     progress |-> end,
                     table |-> got.table])

from_unicode_line(line, table) ==
    LET r == ScanWords(line, split_ascii_whitespace(line),
                       [inner |-> <<>>, progress |-> 0, table |-> table])
    IN [inner |-> r.inner, table |-> r.table]

\* Grokker::iter_variants(): the classes in declaration order; the index of
\* a class is the index of its pattern in MATCHERS
GROKKER_VARIANTS ==
    <<"Base10Integer", "Base10Float", "Base16Integer", "Base16Float",
      "UUID", "MAC", "IPv6", "IPv4", "Hostname", "Month", "Day">>

GROKKER_COUNT == Len(GROKKER_VARIANTS) - 1

\* Grokker::from_match_index, idx 0-based: an Option<Grokker>
from_match_index(idx) ==
    IF idx > GROKKER_COUNT THEN [some |-> FALSE]
    ELSE [some |-> TRUE, grokker |-> GROKKER_VARIANTS[idx + 1]]

\* matches.iter().filter_map(Grokker::from_match_index).collect(): the
\* classes of the matching patterns, in ascending order of pattern index;
\* matches is the set of the indices of the patterns that match the input
RECURSIVE collect_match_types(_, _)
collect_match_types(matches, idx) ==
    IF idx > GROKKER_COUNT THEN <<>>
    ELSE (IF idx \in matches /\ from_match_index(idx).some
          THEN <<from_match_index(idx).grokker>>
          ELSE <<>>)
         \o collect_match_types(matches, idx + 1)

\* Vec::contains
contains(match_types, g) == \E i \in 1..Len(match_types) : match_types[i] = g

\* variant: two matching classes are never arbitrated
arbitrate_two_wildcard(match_types) == Wildcard

\* the arm for two matching classes: the checks in the order of the code
arbitrate_two(match_types) ==
    IF contains(match_types, "UUID") /\ contains(match_types, "Hostname")
    THEN TypedMatch("UUID")
    ELSE IF contains(match_types, "Base10Integer")
            /\ contains(match_types, "Base16Integer")
    THEN TypedMatch("Base10Integer")
    ELSE IF contains(match_types, "Base10Float")
            /\ contains(match_types, "Base16Float")
    THEN TypedMatch("Base10Float")
    ELSE IF contains(match_types, "Base16Integer")
            /\ contains(match_types, "Hostname")
    THEN TypedMatch("Base16Integer")
    ELSE IF contains(match_types, "Base16Float")
            /\ contains(match_types, "Hostname")
    THEN TypedMatch("Base16Float")
    ELSE Wildcard

\* the arm for three matching classes
arbitrate_three(match_types) ==
    IF /\ contains(match_types, "Base10Integer")
       /\ contains(match_types, "Base16Integer")
       /\ contains(match_types, "Hostname")
    THEN TypedMatch("Base10Integer")
    ELSE IF /\ contains(match_types, "Base10Float")
            /\ contains(match_types, "Base16Float")
            /\ contains(match_types, "Hostname")
    THEN TypedMatch("Base10Float")
    ELSE Wildcard

\* TypedToken::from_parse: the input interned as a String token
TypedToken_from_parse(input, table) ==
    LET got == get_or_intern(table, input)
    IN [value |-> TypedToken_String(got.sym), table |-> got.table]

\* Token::from_parse on an input whose matching patterns are matches (the
\* value of MATCHERS.matches(input)); also returns the interner, which
\* only the arm for no match touches
Token_from_parse(input, matches, table) ==
    LET match_types == collect_match_types(matches, 0)
        first_idx == CHOOSE i \in matches : \A j \in matches : i <= j
    IN IF Len(match_types) = 0
       THEN LET typed == TypedToken_from_parse(input, table)
            IN [token |-> Value(typed.value), table |-> typed.table]
       ELSE IF Len(match_types) = 1
       THEN [token |-> TypedMatch(from_match_index(first_idx).grokker),
             table |-> table]
       ELSE IF Len(match_types) = 2
       THEN [token |-> arbitrate_two(match_types), table |-> table]
       ELSE IF Len(match_types) = 3
       THEN [token |-> arbitrate_three(match_types), table |-> table]
       ELSE [token |-> Wildcard, table |-> table]

TokenStream_len(ts) == Len(ts)

\* TokenStream::first: an Option<Token>
TokenStream_first(ts) ==
    IF Len(ts) = 0 THEN [some |-> FALSE]
    ELSE [some |-> TRUE, token |-> ts[1].token]

\* TokenStream::get_token_at_index, idx 0-based and in range
get_token_at_index(ts, idx) == ts[idx + 1].token

\* Display for Grokker (EnumDisplay): the name of the variant, as the
\* characters of the string
Grokker_to_string(g) ==
    CASE g = "Base10Integer" -> 
           <<"B", "a", "s", "e", "1", "0", "I", "n", "t", "e", "g", "e", "r">>
      [] g = "Base10Float" -> 
           <<"B", "a", "s", "e", "1", "0", "F", "l", "o", "a", "t">>
      [] g = "Base16Integer" -> 
           <<"B", "a", "s", "e", "1", "6", "I", "n", "t", "e", "g", "e", "r">>
      [] g = "Base16Float" -> 
           <<"B", "a", "s", "e", "1", "6", "F", "l", "o", "a", "t">>
      [] g = "UUID" -> <<"U", "U", "I", "D">>
      [] g = "MAC" -> <<"M", "A", "C">>
      [] g = "IPv6" -> <<"I", "P", "v", "6">>
      [] g = "IPv4" -> <<"I", "P", "v", "4">>
      [] g = "Hostname" -> <<"H", "o", "s", "t", "n", "a", "m", "e">>
      [] g = "Month" -> <<"M", "o", "n", "t", "h">>
      [] g = "Day" -> <<"D", "a", "y">>

DecimalDigits == <<"0", "1", "2", "3", "4", "5", "6", "7", "8", "9">>

RECURSIVE Nat_to_string(_)
Nat_to_string(n) ==
    IF n < 10 THEN <<DecimalDigits[n + 1]>>
    ELSE Nat_to_string(n \div 10) \o <<DecimalDigits[(n % 10) + 1]>>

\* i64::to_string: the decimal digits, "-" before those of a negative
Int_to_string(i) ==
    IF i < 0 THEN <<"-">> \o Nat_to_string(0 - i) ELSE Nat_to_string(i)

\* f64::to_string of a number of tenths: no point for a whole number
Float_to_string(tenths) ==
    LET a == IF tenths < 0 THEN 0 - tenths ELSE tenths
    IN (IF tenths < 0 THEN <<"-">> ELSE <<>>)
       \o Nat_to_string(a \div 10)
       \o (IF a % 10 = 0 THEN <<>> ELSE <<".", DecimalDigits[(a % 10) + 1]>>)

\* Display for Token: "*" for a Wildcard, the name of the class for a
\* TypedMatch, the digits of a number, the interned string for a
\* Value(String), a panic when its symbol does not resolve
Token_to_string(tok, table) ==
    IF tok.kind = "Wildcard" THEN [ret |-> "Ok", text |-> <<"*">>]
    ELSE IF tok.kind = "TypedMatch"
    THEN [ret |-> "Ok", text |-> Grokker_to_string(tok.grokker)]
    ELSE IF tok.value.kind = "Int"
    THEN [ret |-> "Ok", text |-> Int_to_string(tok.value.int)]
    ELSE IF tok.value.kind = "Float"
    THEN [ret |-> "Ok", text |-> Float_to_string(tok.value.tenths)]
    ELSE LET r == resolve(table, tok.value.sym)
         IN IF r.ret = "Ok" THEN [ret |-> "Ok", text |-> r.string]
            ELSE [ret |-> "Panic"]

\* variant: no space is written between two words
repeat_space_none(n) == <<>>

\* " ".repeat(n)
repeat_space(n) == [i \in 1..n |-> " "]

\* words.iter().interleave(whitespace.iter()).join_concat(): the word of
\* token i, then as many spaces as lie between token i and token i + 1
RECURSIVE interleave(_, _, _)
interleave(ts, table, i) ==
    IF i > Len(ts) THEN [ret |-> "Ok", text |-> <<>>]
    ELSE LET word == Token_to_string(ts[i].token, table)
             rest == interleave(ts, table, i + 1)
         IN IF word.ret = "Panic" \/ rest.ret = "Panic"
            THEN [ret |-> "Panic"]
            ELSE [ret |-> "Ok",
                  text |-> word.text
                    \o (IF i < Len(ts)
                        THEN repeat_space(ts[i + 1].offset.start
                                          - ts[i].offset.end)
                        ELSE <<>>)
                    \o rest.text]

\* Display for TokenStream (and for Record, which forwards to it)
TokenStream_to_string(ts, table) == interleave(ts, table, 1)

(***************************************************************************)
(* Record (record/mod.rs).                                                 *)
(***************************************************************************)
\* Record::new: a token stream and a fresh Ksuid; also returns the interner
Record_new(line, table, uid) ==
    LET ts == from_unicode_line(line, table)
    IN [rec |-> [inner |-> ts.inner, uid |-> uid], table |-> ts.table]

\* variant: every record reports one token
Record_len_one(rec) == 1

Record_len(rec) == TokenStream_len(rec.inner)

\* variant: every token converts into the same symbol
Token_into_symbol_same(tok, table) == [sym |-> 1, table |-> table]

\* symbolize_grokker: get_or_intern of the name of every class, in the
\* order of the declaration: the names the table does not hold are added
\* at its end in that order
symbolize_grokker(table) ==
    LET names == [i \in 1..Len(GROKKER_VARIANTS) |->
                    Grokker_to_string(GROKKER_VARIANTS[i])]
        Missing(name) == Lookup(table, name) = 0
    IN table \o SelectSeq(names, Missing)

\* From<Token> for DefaultSymbol: the symbol and the interner after the
\* conversion.  A Wildcard is the symbol of "*" and a TypedMatch the symbol
\* of the name of its class, interned when first needed; a Value(String) is
\* its symbol; the text of a number is interned
Token_into_symbol(tok, table) ==
    IF tok.kind = "Wildcard" THEN get_or_intern(table, <<"*">>)
    ELSE IF tok.kind = "TypedMatch"
    THEN LET syms == symbolize_grokker(table)
         IN [sym |-> Lookup(syms, Grokker_to_string(tok.grokker)),
             table |-> syms]
    ELSE IF tok.value.kind = "String"
    THEN [sym |-> tok.value.sym, table |-> table]
    ELSE IF tok.value.kind = "Int"
    THEN get_or_intern(table, Int_to_string(tok.value.int))
    ELSE get_or_intern(table, Float_to_string(tok.value.tenths))

\* Record::first: an Option<DefaultSymbol>
Record_first(rec, table) ==
    LET t == TokenStream_first(rec.inner)
    IN IF t.some
       THEN LET into == Token_into_symbol(t.token, table)
            IN [some |-> TRUE, sym |-> into.sym, table |-> into.table]
       ELSE [some |-> FALSE, table |-> table]

\* (&record).into_iter().collect(): RefIterator::next returns the token at
\* index and advances until get_token_at_index returns None
RECURSIVE RefIterator_collect(_, _)
RefIterator_collect(rec, index) ==
    IF index < TokenStream_len(rec.inner)
    THEN <<get_token_at_index(rec.inner, index)>>
         \o RefIterator_collect(rec, index + 1)
    ELSE <<>>

\* variant: the zip goes on until both iterators are exhausted; the
\* exhausted side repeats the token of the other side
RECURSIVE zip_longest(_, _, _)
zip_longest(self, candidate, index) ==
    LET this == IF index < Record_len(self)
                THEN get_token_at_index(self.inner, index)
                ELSE get_token_at_index(candidate.inner, index)
        other == IF index < Record_len(candidate)
                 THEN get_token_at_index(candidate.inner, index)
                 ELSE get_token_at_index(self.inner, index)
    IN IF index < Record_len(self) \/ index < Record_len(candidate)
       THEN <<(<<this, other>>)>> \o zip_longest(self, candidate, index + 1)
       ELSE <<>>

\* variant: the zip leaves out the pairs at even indices
RECURSIVE zip_odd(_, _, _)
zip_odd(self, candidate, index) ==
    IF index < Record_len(self) /\ index < Record_len(candidate)
    THEN (IF index % 2 = 1
          THEN <<(<<get_token_at_index(self.inner, index),
                    get_token_at_index(candidate.inner, index)>>)>>
          ELSE <<>>)
         \o zip_odd(self, candidate, index + 1)
    ELSE <<>>

\* self.into_iter().zip(candidate.into_iter()).collect(): pairs of tokens
\* at the same index until either iterator is exhausted
RECURSIVE zip(_, _, _)
zip(self, candidate, index) ==
    IF index < Record_len(self) /\ index < Record_len(candidate)
    THEN <<(<<get_token_at_index(self.inner, index),
              get_token_at_index(candidate.inner, index)>>)>>
         \o zip(self, candidate, index + 1)
    ELSE <<>>

\* Record::calc_sim_score: zip the two streams, count the equal pairs
calc_sim_score(self, candidate) ==
    LET pairs == zip(self, candidate, 0)
    IN Cardinality({i \in 1..Len(pairs) : Token_eq(pairs[i][1], pairs[i][2])})

(***************************************************************************)
(* LogGroup (log_group/mod.rs).                                            *)
(***************************************************************************)
EmptyMap == [k \in {} |-> 0]

\* variant: the insertion drops the other entries of the map
MapInsert_alone(m, key, val) == [k \in {key} |-> val]

\* HashMap::insert
MapInsert(m, key, val) ==
    [k \in (DOMAIN m) \cup {key} |-> IF k = key THEN val ELSE m[k]]

\* variant: the creating record is also stored as the first example
LogGroup_new_seeded(event) ==
    [id |-> event.uid, event |-> event, examples |-> <<event>>,
     variables |-> EmptyMap]

LogGroup_new(event) ==
    [id |-> event.uid, event |-> event, examples |-> <<>>,
     variables |-> EmptyMap]

\* variant: the tokens are not compared, every position that is not yet a
\* variable is reported
is_candidate_unchecked(variables, idx, event, candidate) ==
    IF idx \in DOMAIN variables THEN FALSE ELSE TRUE

\* variant: a position that is already a variable is compared again
is_candidate_rediscovering(variables, idx, event, candidate) ==
    IF ~Token_eq(event, candidate) THEN TRUE ELSE FALSE

\* the filter closure of discover_variables at position idx
is_candidate(variables, idx, event, candidate) ==
    IF idx \in DOMAIN variables THEN FALSE
    ELSE IF ~Token_eq(event, candidate) THEN TRUE
    ELSE FALSE

\* LogGroup::discover_variables: the Vec<Wildcard>, in position order
discover_variables(self, rec) ==
    LET n == Min(Record_len(self.event), Record_len(rec))
        found == {idx \in 0..(n - 1) :
                    is_candidate(self.variables, idx,
                                 get_token_at_index(self.event.inner, idx),
                                 get_token_at_index(rec.inner, idx))}
        order == SetToSeq(found)
    IN [k \in 1..Len(order) |-> <<order[k], Wildcard>>]

\* variant: the map is rebuilt from the new variables, the old ones are lost
RECURSIVE update_variables_replacing(_, _)
update_variables_replacing(self, vs) ==
    IF vs = <<>> THEN self
    ELSE LET var == Head(vs)
             pos == var[1]
             offset == self.event.inner[pos + 1].offset
             next == [self EXCEPT
                        !.variables = MapInsert(EmptyMap, pos, var[2]),
                        !.event.inner[pos + 1] =
                            [offset |-> offset, token |-> var[2]]]
         IN update_variables_replacing(next, Tail(vs))

\* variant: the map is updated, the template is left as it was
RECURSIVE update_variables_map_only(_, _)
update_variables_map_only(self, vs) ==
    IF vs = <<>> THEN self
    ELSE LET var == Head(vs)
             next == [self EXCEPT
                        !.variables = MapInsert(self.variables, var[1],
                                                var[2])]
         IN update_variables_map_only(next, Tail(vs))

\* LogGroup::update_variables: for each var, insert it in the map and
\* overwrite the token of the template, keeping the offset
RECURSIVE update_variables(_, _)
update_variables(self, vs) ==
    IF vs = <<>> THEN self
    ELSE LET var == Head(vs)
             pos == var[1]
             offset == self.event.inner[pos + 1].offset
             next == [self EXCEPT
                        !.variables = MapInsert(self.variables, pos, var[2]),
                        !.event.inner[pos + 1] =
                            [offset |-> offset, token |-> var[2]]]
         IN update_variables(next, Tail(vs))

\* variant: the record is put in front of the examples
add_example_front(self, rec) ==
    LET vs == discover_variables(self, rec)
        pushed == [self EXCEPT !.examples = <<rec>> \o self.examples]
    IN IF vs # <<>> THEN update_variables(pushed, vs) ELSE pushed

\* LogGroup::add_example
add_example(self, rec) ==
    LET vs == discover_variables(self, rec)
        pushed == [self EXCEPT !.examples = Append(self.examples, rec)]
    IN IF vs # <<>> THEN update_variables(pushed, vs) ELSE pushed

(***************************************************************************)
(* SingleLayer (drains/simple.rs).                                         *)
(***************************************************************************)
\* variant: the fraction is stored as given, not in lowest terms
Ratio_new_raw(numer, denom) == [numer |-> numer, denom |-> denom]

\* Ratio::new for non-negative integers and a non-zero denominator: the
\* fraction in lowest terms
Ratio_new(numer, denom) ==
    LET g == Gcd(numer, denom)
    IN [numer |-> numer \div g, denom |-> denom \div g]

\* PartialOrd on Ratio<BigInt>: exact, denominators are positive
Ratio_gt(a, b) == a.numer * b.denom > b.numer * a.denom

\* the parse behind Regex::new for patterns made of literals, groups and
\* the repetition "*": depth counts the open groups, atom tells whether an
\* expression precedes that a repetition can apply to
RECURSIVE Regex_parse(_, _, _, _)
Regex_parse(pat, i, depth, atom) ==
    IF i > Len(pat) THEN depth = 0
    ELSE IF pat[i] = "(" THEN Regex_parse(pat, i + 1, depth + 1, FALSE)
    ELSE IF pat[i] = ")"
         THEN depth > 0 /\ Regex_parse(pat, i + 1, depth - 1, TRUE)
    ELSE IF pat[i] = "*" THEN atom /\ Regex_parse(pat, i + 1, depth, TRUE)
    ELSE Regex_parse(pat, i + 1, depth, TRUE)

\* variant: every pattern is accepted
Regex_new_lenient(pat) == "Ok"

\* Regex::new(s): Ok or Err(regex::Error)
Regex_new(pat) == IF Regex_parse(pat, 1, 0, FALSE) THEN "Ok" ELSE "Err"

\* SingleLayer::new(domain): the patterns are compiled in order, the first
\* error is returned by "?"; threshold is Ratio::from_float(0.5)
SingleLayer_new_domain(domain) ==
    IF \E i \in 1..Len(domain) : Regex_new(domain[i]) = "Err"
    THEN [ret |-> "Err"]
    ELSE [ret |-> "Ok",
          drain |-> [domain |-> domain, base_layer |-> EmptyMap,
                     threshold |-> Ratio_new(1, 2)]]

\* SingleLayer::new(vec![]): threshold is Ratio::from_float(0.5)
SingleLayer_new ==
    [domain |-> <<>>, base_layer |-> EmptyMap, threshold |-> Ratio_new(1, 2)]

\* SingleLayer::set_threshold; Ratio::new panics on a zero denominator
set_threshold(self, numerator, denominator) ==
    IF denominator = 0
    THEN [ret |-> "Panic", drain |-> self]
    ELSE [ret |-> "Ok",
          drain |-> [self EXCEPT
                        !.threshold = Ratio_new(numerator, denominator)]]

\* variant: a later group with an equal score replaces the earlier one
fold_step_last_wins(acc, score, idx) ==
    IF score >= acc[1] THEN <<score, idx>> ELSE acc

\* the closure folded over log_groups: acc is <<best score, index of it>>
fold_step(acc, score, idx) ==
    IF score > acc[1] THEN <<score, idx>> ELSE acc

RECURSIVE fold_groups(_, _, _, _)
fold_groups(new_record, log_groups, i, acc) ==
    IF i > Len(log_groups) THEN acc
    ELSE fold_groups(new_record, log_groups, i + 1,
            fold_step(acc, calc_sim_score(new_record, log_groups[i].event),
                      i - 1))

\* variant: a score equal to the threshold is absorbed too
above_threshold_or_equal(score, length, threshold) ==
    ~Ratio_gt(threshold, Ratio_new(score, length))

\* score_ratio > self.threshold
above_threshold(score, length, threshold) ==
    Ratio_gt(Ratio_new(score, length), threshold)

\* variant: the early return for the empty line is missing
is_empty_line_never(line) == FALSE

\* line.is_empty()
is_empty_line(line) == line = <<>>

\* variant: the new group is put in front of the groups of its bucket
push_group_front(log_groups, group) == <<group>> \o log_groups

\* log_groups.push(group)
push_group(log_groups, group) == Append(log_groups, group)

\* the body of process_line once the record is built and first() is Some
classify(self, new_record, length, first) ==
    IF length \in DOMAIN self.base_layer
    THEN LET second_layer == self.base_layer[length]
         IN IF first \in DOMAIN second_layer
            THEN LET log_groups == second_layer[first]
                     best == fold_groups(new_record, log_groups, 1, <<0, 0>>)
                     score == best[1]
                     offset == best[2]
                 IN IF above_threshold(score, length, self.threshold)
                    THEN [ret |-> "Ok(false)",
                          drain |-> [self EXCEPT
                            !.base_layer[length][first][offset + 1] =
                                add_example(log_groups[offset + 1],
                                            new_record)]]
                    ELSE [ret |-> "Ok(true)",
                          drain |-> [self EXCEPT
                            !.base_layer[length][first] =
                                push_group(log_groups,
                                           LogGroup_new(new_record))]]
            ELSE [ret |-> "Ok(true)",
                  drain |-> [self EXCEPT
                    !.base_layer[length] =
                        MapInsert(second_layer, first,
                                  <<LogGroup_new(new_record)>>)]]
    ELSE [ret |-> "Ok(true)",
          drain |-> [self EXCEPT
            !.base_layer =
                MapInsert(self.base_layer, length,
                    MapInsert(EmptyMap, first,
                              <<LogGroup_new(new_record)>>))]]

\* SingleLayer::process_line: the result, the index, the interner and the
\* Ksuid counter after the call
process_line(self, line, table, uid) ==
    IF is_empty_line(line)
    THEN [ret |-> "Ok(false)", drain |-> self, table |-> table, uid |-> uid]
    ELSE LET made == Record_new(line, table, uid + 1)
             new_record == made.rec
             length == Record_len(new_record)
             first == Record_first(new_record, made.table)
         IN IF ~first.some
            THEN \* .expect("records have first tokens")
                 [ret |-> "Panic", drain |-> self, table |-> made.table,
                  uid |-> uid + 1]
            ELSE LET r == classify(self, new_record, length, first.sym)
                 IN [ret |-> r.ret, drain |-> r.drain, table |-> first.table,
                     uid |-> uid + 1]

\* the orders in which a HashMap may yield its keys: any order
KeyOrders(S) ==
    {s \in [1..Cardinality(S) -> S] :
        \A i \in 1..Cardinality(S) : \A j \in 1..Cardinality(S) :
            (s[i] = s[j]) => (i = j)}

\* variant: the groups of a bucket are pushed last to first
RECURSIVE push_groups_reversed(_, _, _)
push_groups_reversed(second_layer, firsts, i) ==
    IF i > Len(firsts) THEN <<>>
    ELSE LET grp == second_layer[firsts[i]]
         IN [k \in 1..Len(grp) |-> grp[Len(grp) + 1 - k]]
            \o push_groups_reversed(second_layer, firsts, i + 1)

\* the two inner loops of iter_groups: for every bucket of the second
\* layer, in the order the map yields them, push its groups in order
RECURSIVE push_groups(_, _, _)
push_groups(second_layer, firsts, i) ==
    IF i > Len(firsts) THEN <<>>
    ELSE second_layer[firsts[i]] \o push_groups(second_layer, firsts, i + 1)

\* SingleLayer::iter_groups, given the order in which base_layer yields
\* its keys and, for every length, the order in which its map does
iter_groups(self, lengths, firsts) ==
    [i \in 1..Len(lengths) |->
        push_groups(self.base_layer[lengths[i]], firsts[lengths[i]], 1)]

(***************************************************************************)
(* The inputs of the model: lines and thresholds.                          *)
(***************************************************************************)
\* atoms joined by single spaces, each atom one character
RECURSIVE JoinAtoms(_)
JoinAtoms(atoms) ==
    IF Len(atoms) = 0 THEN <<>>
    ELSE IF Len(atoms) = 1 THEN <<atoms[1]>>
    ELSE <<atoms[1], " ">> \o JoinAtoms(Tail(atoms))

\* lines of two and three atoms that start with "a", and one line with
\* another first atom
ShortLines ==
    {JoinAtoms(<<"a", "a">>), JoinAtoms(<<"a", "b">>),
     JoinAtoms(<<"b", "b">>),
     JoinAtoms(<<"a", "a", "a">>), JoinAtoms(<<"a", "a", "b">>),
     JoinAtoms(<<"a", "b", "b">>)}

\* two 7-atom lines that differ in the last atom only, as in the tests
SevenA == JoinAtoms(<<"a", "b", "a", "b", "a", "b", "a">>)
SevenB == JoinAtoms(<<"a", "b", "a", "b", "a", "b", "b">>)

\* the empty line and a line of whitespace only
BlankLines == {<<>>, <<" ">>}

Lines == ShortLines \cup {SevenA, SevenB} \cup BlankLines

\* the arguments of set_threshold: <<numerator, denominator>>
Thresholds == {<<0, 1>>, <<100, 200>>, <<99, 100>>}

NumAtoms(line) == Len(split_ascii_whitespace(line))

(***************************************************************************)
(* The state machine.                                                      *)
(***************************************************************************)
(***************************************************************************)
(* The lock around the interner (parking_lot::RwLock) and the threads of   *)
(* the process that call the functions taking it.                          *)
(***************************************************************************)
\* number of threads
MaxThreads == 2

Threads == 1..MaxThreads

\* RwLock::new: nobody holds the lock.  writer is the thread that has the
\* writer bit of the lock: the thread that holds the write guard, or the
\* thread inside INTERNER.write() that waits for the readers to leave
RwLock_new == [writer |-> 0, readers |-> {}]

\* INTERNER.read() returns when no thread has the writer bit: a read is
\* not granted while a writer holds the lock or waits for the readers
can_read(l) == l.writer = 0

\* variant: the write lock is granted whoever holds the lock
can_write_always(l) == TRUE

\* INTERNER.write() takes the writer bit when no other thread has it
can_write(l) == l.writer = 0

\* the writer that has the bit gets its guard when no read guard is left
readers_gone(l) == l.readers = {}

\* the guard the call obtains
acquire(l, t, mode) ==
    IF mode = "write" THEN [l EXCEPT !.writer = t]
    ELSE [l EXCEPT !.readers = @ \cup {t}]

\* variant: the guard is never dropped
release_kept(l, t, mode) == l

\* the guard is dropped
release(l, t, mode) ==
    IF mode = "write" THEN [l EXCEPT !.writer = 0]
    ELSE [l EXCEPT !.readers = @ \ {t}]

\* the lock each function takes: from_unicode_line calls INTERNER.write()
\* before it looks at the line, TypedToken::from_parse calls
\* INTERNER.write(), the initialisers of ASTERISK and GROKKER_SYMS call
\* INTERNER.write(), the conversion of a number into a symbol calls
\* INTERNER.write(), Record::resolve and Display for Token call
\* INTERNER.read()
lock_mode(op) ==
    IF op = "from_unicode_line" THEN "write"
    ELSE IF op = "TypedToken::from_parse" THEN "write"
    ELSE IF op = "ASTERISK" THEN "write"
    ELSE IF op = "symbolize_grokker" THEN "write"
    ELSE IF op = "From<Token> for DefaultSymbol" THEN "write"
    ELSE "read"

\* a thread that is in none of these functions
Idle == [at |-> "idle"]

\* lazy_static!: no static is initialised before its first use
Statics_new == [ASTERISK |-> "uninit", GROKKER_SYMS |-> "uninit"]

Init ==
    /\ drain = SingleLayer_new
    /\ INTERNER = <<>>
    /\ ksuid = 0
    /\ last = [op |-> "new", arg |-> <<>>, ret |-> "Ok"]
    /\ origin = EmptyMap
    /\ calls = [atoms |-> 0, sets |-> 0, news |-> 0, records |-> 0]
    /\ lock = RwLock_new
    /\ pc = [t \in Threads |-> Idle]
    /\ statics = Statics_new

Running == last.ret # "Panic"

\* the token stream of the group with the given id
TemplateOf(d, id) ==
    LET len == CHOOSE l \in DOMAIN d.base_layer :
                 \E f \in DOMAIN d.base_layer[l] :
                    \E k \in 1..Len(d.base_layer[l][f]) :
                        d.base_layer[l][f][k].id = id
        fst == CHOOSE f \in DOMAIN d.base_layer[len] :
                 \E k \in 1..Len(d.base_layer[len][f]) :
                    d.base_layer[len][f][k].id = id
        k == CHOOSE k \in 1..Len(d.base_layer[len][fst]) :
                 d.base_layer[len][fst][k].id = id
    IN d.base_layer[len][fst][k].event.inner

\* a caller hands one line to process_line
ProcessLine(line) ==
    /\ Running
    /\ LET r == process_line(drain, line, INTERNER, ksuid)
           n == NumAtoms(line)
       IN /\ (n >= 1) => (calls.atoms < MaxLines)
          /\ drain' = r.drain
          /\ INTERNER' = r.table
          /\ ksuid' = r.uid
          /\ last' = [op |-> "process_line", arg |-> line, ret |-> r.ret]
          /\ origin' = IF r.ret = "Ok(true)"
                       THEN MapInsert(origin, r.uid, TemplateOf(r.drain, r.uid))
                       ELSE origin
          /\ calls' = IF n >= 1
                      THEN [calls EXCEPT !.atoms = @ + 1]
                      ELSE calls
          /\ UNCHANGED <<lock, pc, statics>>

\* a caller sets the threshold
SetThreshold(numerator, denominator) ==
    /\ Running
    /\ calls.sets < MaxSets
    /\ LET r == set_threshold(drain, numerator, denominator)
       IN /\ drain' = r.drain
          /\ last' = [op |-> "set_threshold",
                      arg |-> <<numerator, denominator>>, ret |-> r.ret]
          /\ calls' = [calls EXCEPT !.sets = @ + 1]
          /\ UNCHANGED <<INTERNER, ksuid, origin, lock, pc, statics>>

Next ==
    \/ \E line \in Lines : ProcessLine(line)
    \/ \E t \in Thresholds : SetThreshold(t[1], t[2])

Spec == Init /\ [][Next]_vars

(***************************************************************************)
(* The same index driven with more threshold arguments and fewer lines:    *)
(* fractions that are not in lowest terms, fractions above 1 and a zero    *)
(* denominator.                                                            *)
(***************************************************************************)
\* the largest factor k by which numerator and denominator are scaled
MaxScale == 3

ThresholdLines ==
    {JoinAtoms(<<"a", "a">>), JoinAtoms(<<"a", "b">>),
     JoinAtoms(<<"a", "a", "a">>), JoinAtoms(<<"a", "a", "b">>)}

ThresholdArgs ==
    {<<0, 1>>, <<1, 2>>, <<2, 4>>, <<100, 200>>, <<2, 3>>, <<1, 1>>,
     <<3, 2>>, <<1, 0>>, <<0, 0>>}

ThresholdNext ==
    \/ \E line \in ThresholdLines : ProcessLine(line)
    \/ \E t \in ThresholdArgs : SetThreshold(t[1], t[2])

ThresholdSpec == Init /\ [][ThresholdNext]_vars

(***************************************************************************)
(* Views of the index used by the properties.                              *)
(***************************************************************************)
\* the places of the index where a group is stored: <<length, first, k>>
Places(d) ==
    UNION {UNION {{<<len, fst, k>> : k \in 1..Len(d.base_layer[len][fst])} :
                    fst \in DOMAIN d.base_layer[len]} :
            len \in DOMAIN d.base_layer}

GroupAt(d, p) == d.base_layer[p[1]][p[2]][p[3]]

Bucket(d, len, fst) == d.base_layer[len][fst]

HasBucket(d, len, fst) ==
    /\ len \in DOMAIN d.base_layer
    /\ fst \in DOMAIN d.base_layer[len]

NumGroups(d) == Cardinality(Places(d))

RECURSIVE CountExamples(_, _)
CountExamples(d, ps) ==
    IF ps = {} THEN 0
    ELSE LET p == CHOOSE q \in ps : TRUE
         IN Len(GroupAt(d, p).examples) + CountExamples(d, ps \ {p})

NumExamples(d) == CountExamples(d, Places(d))

\* the step is a process_line call; its line is last'.arg
IsProcessLine == last'.op = "process_line" /\ calls'.sets = calls.sets

(***************************************************************************)
(* The index with a caller that also lists the groups.                     *)
(***************************************************************************)
\* lines of one, two and three atoms; two first atoms
IterLines ==
    {JoinAtoms(<<"a">>), JoinAtoms(<<"a", "a">>), JoinAtoms(<<"b", "b">>),
     JoinAtoms(<<"a", "a", "a">>), JoinAtoms(<<"a", "b", "b">>)}

\* a caller lists the groups; the index is not changed.  The returned
\* Vec<Vec<&LogGroup>> is kept in last.groups
IterGroups ==
    /\ Running
    /\ \E lengths \in KeyOrders(DOMAIN drain.base_layer) :
        \E firsts \in [DOMAIN drain.base_layer ->
                        UNION {KeyOrders(DOMAIN drain.base_layer[l]) :
                                l \in DOMAIN drain.base_layer}] :
            /\ \A l \in DOMAIN drain.base_layer :
                    firsts[l] \in KeyOrders(DOMAIN drain.base_layer[l])
            /\ last' = [op |-> "iter_groups", arg |-> <<>>, ret |-> "Vec",
                        groups |-> iter_groups(drain, lengths, firsts)]
    /\ UNCHANGED <<drain, INTERNER, ksuid, origin, calls, lock, pc, statics>>

IterNext ==
    \/ \E line \in IterLines : ProcessLine(line)
    \/ IterGroups

IterSpec == Init /\ [][IterNext]_vars

(***************************************************************************)
(* The caller also constructs indexes with domain patterns.                *)
(***************************************************************************)
\* number of patterns in a domain
MaxDomain == 2
\* number of indexes constructed after the first one in one run
MaxNews == 1

DomainPatterns == {<<"a", "*">>, <<"(", "a", ")">>, <<"(">>, <<"*">>}

Domains == UNION {[1..n -> DomainPatterns] : n \in 0..MaxDomain}

NewLines == {JoinAtoms(<<"a", "a">>), JoinAtoms(<<"a", "b">>)}

\* a caller constructs an index and, when that succeeds, uses it from then
\* on; the interner is shared by all indexes of the process
New(domain) ==
    /\ Running
    /\ calls.news < MaxNews
    /\ LET r == SingleLayer_new_domain(domain)
       IN /\ drain' = IF r.ret = "Ok" THEN r.drain ELSE drain
          /\ last' = [op |-> "new", arg |-> domain, ret |-> r.ret]
    /\ calls' = [calls EXCEPT !.news = @ + 1]
    /\ UNCHANGED <<INTERNER, ksuid, origin, lock, pc, statics>>

NewNext ==
    \/ \E domain \in Domains : New(domain)
    \/ \E line \in NewLines : ProcessLine(line)

NewSpec == Init /\ [][NewNext]_vars

(***************************************************************************)
(* Records built from lines and rendered, without an index.                *)
(***************************************************************************)
\* the length of the lines that are enumerated in full
MaxLen == 3
\* number of Record::new calls in one run
MaxRecords == 2

TokenAlphabet == {"a", " ", "\t"}

\* every line over the alphabet up to MaxLen, and longer lines: an atom
\* that is a prefix or a suffix of another, a repeated atom, runs of
\* spaces, surrounding whitespace, atoms that look like numbers, a 7-atom
\* line
TokenLines ==
    UNION {[1..n -> TokenAlphabet] : n \in 0..MaxLen}
    \cup {<<"a", "b", " ", "a">>, <<"a", " ", "a", "b">>,
          <<"b", "a", " ", "a">>, <<"a", "a", " ", "a", " ", "a", "a", "a">>,
          <<"a", " ", " ", "b">>, <<" ", "a", " ", "\t", "a", " ">>,
          <<"a", " ", "a", " ", "a">>, <<"1", "2", " ", "0", "x", "a">>,
          SevenA}

\* a caller builds a record from a line
RecordNew(line) ==
    /\ calls.records < MaxRecords
    /\ LET made == Record_new(line, INTERNER, ksuid + 1)
       IN /\ INTERNER' = made.table
          /\ ksuid' = ksuid + 1
          /\ last' = [op |-> "Record::new", arg |-> line, ret |-> "Ok",
                      rec |-> made.rec]
    /\ calls' = [calls EXCEPT !.records = @ + 1]
    /\ UNCHANGED <<drain, origin, lock, pc, statics>>

\* the caller renders the record it has just built
RecordToString ==
    /\ last.op = "Record::new"
    /\ LET r == TokenStream_to_string(last.rec.inner, INTERNER)
       IN last' = IF r.ret = "Ok"
                  THEN [op |-> "to_string", arg |-> last.arg, ret |-> "Ok",
                        rec |-> last.rec, text |-> r.text]
                  ELSE [op |-> "to_string", arg |-> last.arg,
                        ret |-> "Panic", rec |-> last.rec]
    /\ UNCHANGED <<drain, INTERNER, ksuid, origin, calls, lock, pc, statics>>

TokenNext ==
    \/ \E line \in TokenLines : RecordNew(line)
    \/ RecordToString

TokenSpec == Init /\ [][TokenNext]_vars

\* the step is a call of new; its domain is last'.arg
IsNew == last'.op = "new" /\ calls'.news = calls.news + 1

\* the step is a set_threshold call; its arguments are last'.arg
IsSetThreshold == last'.op = "set_threshold" /\ calls'.sets = calls.sets + 1

\* the record process_line builds for a line in the current state
RecordOf(line) == Record_new(line, INTERNER, ksuid + 1).rec

TypeOK ==
    /\ drain.threshold.denom > 0
    /\ ksuid \in 0..(MaxLines + 1)
    /\ calls.atoms \in 0..MaxLines

(***************************************************************************)
(* C1: every process_line call on a line with at least one atom either     *)
(* returns Ok(true), adds exactly one group, which has no examples, and    *)
(* changes no existing group, or returns Ok(false), keeps the groups and   *)
(* adds exactly one example to exactly one group; so the number of groups  *)
(* plus the number of examples is the number of such lines processed.      *)
(***************************************************************************)
C1_Created ==
    /\ last'.ret = "Ok(true)"
    /\ NumGroups(drain') = NumGroups(drain) + 1
    /\ \A p \in Places(drain) :
            p \in Places(drain') /\ GroupAt(drain', p) = GroupAt(drain, p)
    /\ \A p \in Places(drain') \ Places(drain) :
            GroupAt(drain', p).examples = <<>>

C1_Absorbed ==
    /\ last'.ret = "Ok(false)"
    /\ Places(drain') = Places(drain)
    /\ \E p \in Places(drain) :
            /\ Len(GroupAt(drain', p).examples) =
                    Len(GroupAt(drain, p).examples) + 1
            /\ \A q \in Places(drain) \ {p} :
                    GroupAt(drain', q).examples = GroupAt(drain, q).examples

C1_Step ==
    (IsProcessLine /\ NumAtoms(last'.arg) >= 1) =>
        (C1_Created \/ C1_Absorbed)

C1_OneOutcomePerLine ==
    /\ [](NumGroups(drain) + NumExamples(drain) = calls.atoms)
    /\ [][C1_Step]_vars

C1_Witness ==
    /\ last.op = "process_line"
    /\ last.ret = "Ok(false)"
    /\ NumGroups(drain) >= 2
    /\ NumExamples(drain) >= 1

(***************************************************************************)
(* C2: when the bucket (L, K) of a line already holds groups, the line is  *)
(* absorbed (Ok(false)) exactly when best_score / L > threshold as exact   *)
(* rationals; otherwise a new group is appended to that bucket and the     *)
(* call returns Ok(true).                                                  *)
(***************************************************************************)
\* the scores of a record against the templates of a bucket
Scores(rec, groups) ==
    {calc_sim_score(rec, groups[k].event) : k \in 1..Len(groups)}

BestScore(rec, groups) ==
    LET all == Scores(rec, groups)
    IN CHOOSE m \in all : \A x \in all : x <= m

\* the symbol of the first atom, 0 when there is none or it is not interned
FirstKey(atoms) ==
    IF atoms = <<>> THEN 0 ELSE Lookup(INTERNER, Head(atoms))

C2_Step ==
    IsProcessLine =>
        LET line == last'.arg
            atoms == split_ascii_whitespace(line)
            L == Len(atoms)
            K == FirstKey(atoms)
        IN (L >= 1 /\ HasBucket(drain, L, K)) =>
            LET groups == Bucket(drain, L, K)
                best == BestScore(RecordOf(line), groups)
                t == drain.threshold
            IN IF best * t.denom > t.numer * L
               THEN /\ last'.ret = "Ok(false)"
                    /\ Len(Bucket(drain', L, K)) = Len(groups)
               ELSE /\ last'.ret = "Ok(true)"
                    /\ Len(Bucket(drain', L, K)) = Len(groups) + 1
                    /\ NumGroups(drain') = NumGroups(drain) + 1

C2_StrictThreshold == [][C2_Step]_vars

\* with threshold 99/100 the two 7-atom lines, which score 6/7, are two
\* groups of one bucket
C2_Witness ==
    /\ drain.threshold = [numer |-> 99, denom |-> 100]
    /\ last.op = "process_line"
    /\ last.ret = "Ok(true)"
    /\ \E p \in Places(drain) : p[1] = 7 /\ p[3] = 2

(***************************************************************************)
(* C3: when a line is absorbed, the group that receives it belongs to the  *)
(* bucket of the line, its score against the line is the maximum over the  *)
(* groups of that bucket, and it is the earliest group with that score.    *)
(***************************************************************************)
C3_Step ==
    (IsProcessLine /\ last'.ret = "Ok(false)" /\ last'.arg # <<>>) =>
        LET line == last'.arg
            atoms == split_ascii_whitespace(line)
            rec == RecordOf(line)
        IN \A p \in Places(drain) :
            (GroupAt(drain', p).examples # GroupAt(drain, p).examples) =>
                LET groups == Bucket(drain, p[1], p[2])
                    mine == calc_sim_score(rec, groups[p[3]].event)
                IN /\ p[1] = Len(atoms)
                   /\ p[2] = FirstKey(atoms)
                   /\ \A k \in 1..Len(groups) :
                        calc_sim_score(rec, groups[k].event) <= mine
                   /\ \A k \in 1..(p[3] - 1) :
                        calc_sim_score(rec, groups[k].event) < mine

C3_WinnerSelection == [][C3_Step]_vars

\* a bucket of two groups where the first absorbed a line that scored the
\* same against both templates
C3_Witness ==
    \E p \in Places(drain) :
        /\ p[3] = 1
        /\ Len(Bucket(drain, p[1], p[2])) >= 2
        /\ LET g1 == GroupAt(drain, p)
               g2 == Bucket(drain, p[1], p[2])[2]
           IN /\ Len(g1.examples) = 1
              /\ g2.examples = <<>>
              /\ g2.id < g1.examples[1].uid
              /\ calc_sim_score(g1.examples[1],
                                [inner |-> origin[g1.id], uid |-> g1.id])
                    = calc_sim_score(g1.examples[1], g2.event)

(***************************************************************************)
(* C4: for every token t, Wildcard == t and t == Wildcard under the        *)
(* equality used by similarity scoring and variable discovery.             *)
(***************************************************************************)
StreamTokens(inner) == {inner[i].token : i \in 1..Len(inner)}

\* the tokens the index holds: templates, examples and variables
TokensHeld(d) ==
    UNION {LET g == GroupAt(d, p)
           IN StreamTokens(g.event.inner)
              \cup UNION {StreamTokens(g.examples[k].inner) :
                            k \in 1..Len(g.examples)}
              \cup {g.variables[k] : k \in DOMAIN g.variables} :
           p \in Places(d)}

TokenUniverse ==
    TokensHeld(drain)
    \cup {TypedMatch(g) : g \in Grokker}
    \cup {Value(TypedToken_String(sym)) : sym \in 1..Len(INTERNER)}

C4_WildcardReflexive ==
    \A w \in TokenUniverse : \A t \in TokenUniverse :
        (w = Wildcard) => (Token_eq(w, t) /\ Token_eq(t, w))

(***************************************************************************)
(* C5: the similarity score of a record against a template is the number   *)
(* of positions where the tokens are equal under the wildcard-reflexive    *)
(* relation, so every Wildcard position of the template counts as a match. *)
(***************************************************************************)
\* the relation of the equality table: a Wildcard on either side matches,
\* otherwise same variant and equal contents
ReflexiveEq(a, b) == a = Wildcard \/ b = Wildcard \/ a = b

ReflexiveScore(a, b) ==
    Cardinality({i \in 1..Min(Len(a.inner), Len(b.inner)) :
                    ReflexiveEq(a.inner[i].token, b.inner[i].token)})

C5_ScoreCountsWildcards ==
    \A p \in Places(drain) : \A line \in Lines :
        (NumAtoms(line) >= 1) =>
            calc_sim_score(RecordOf(line), GroupAt(drain, p).event)
                = ReflexiveScore(RecordOf(line), GroupAt(drain, p).event)

(***************************************************************************)
(* C6: across every call the variables map of each group only grows, each  *)
(* key keeps its token, and a template position that is a Wildcard stays   *)
(* a Wildcard.                                                             *)
(***************************************************************************)
C6_Grows(g, h) ==
    /\ \A k \in DOMAIN g.variables :
            k \in DOMAIN h.variables /\ h.variables[k] = g.variables[k]
    /\ Len(h.event.inner) = Len(g.event.inner)
    /\ \A i \in 1..Len(g.event.inner) :
            (g.event.inner[i].token = Wildcard) =>
                (h.event.inner[i].token = Wildcard)

C6_Step ==
    \A p \in Places(drain) :
        \E q \in Places(drain') :
            /\ GroupAt(drain', q).id = GroupAt(drain, p).id
            /\ C6_Grows(GroupAt(drain, p), GroupAt(drain', q))

C6_MonotoneGeneralization == [][C6_Step]_vars

\* a group that found a second variable after it had found a first one
C6_Witness ==
    \E p \in Places(drain) :
        /\ Cardinality(DOMAIN GroupAt(drain, p).variables) >= 2
        /\ Len(GroupAt(drain, p).examples) >= 2
        /\ calc_sim_score(GroupAt(drain, p).examples[1],
                          [inner |-> origin[GroupAt(drain, p).id],
                           uid |-> 0])
                = Len(origin[GroupAt(drain, p).id]) - 1

(***************************************************************************)
(* C7: in every reachable state, for every group, a position is a key of   *)
(* variables exactly when the template token there is a Wildcard, the      *)
(* mapped token is Wildcard, and every other template position holds the   *)
(* Value token of the record that created the group.                       *)
(***************************************************************************)
C7_Agree(g) ==
    /\ g.id \in DOMAIN origin
    /\ Len(origin[g.id]) = Len(g.event.inner)
    /\ DOMAIN g.variables \subseteq 0..(Len(g.event.inner) - 1)
    /\ \A pos \in 0..(Len(g.event.inner) - 1) :
            LET tok == g.event.inner[pos + 1].token
            IN IF pos \in DOMAIN g.variables
               THEN tok = Wildcard /\ g.variables[pos] = Wildcard
               ELSE /\ tok # Wildcard
                    /\ tok.kind = "Value"
                    /\ tok = origin[g.id][pos + 1].token

C7_VariablesMatchTemplate ==
    \A p \in Places(drain) : C7_Agree(GroupAt(drain, p))

C7_Witness ==
    \E p \in Places(drain) :
        /\ DOMAIN GroupAt(drain, p).variables # {}
        /\ Len(GroupAt(drain, p).event.inner) >= 3

(***************************************************************************)
(* C8: in every reachable state every group is stored in exactly one       *)
(* bucket, and the keys of that bucket are the length and the first token  *)
(* of the current template of the group.                                   *)
(***************************************************************************)
C8_BucketUniqueness ==
    /\ \A p \in Places(drain) : \A q \in Places(drain) :
            (GroupAt(drain, p).id = GroupAt(drain, q).id) => (p = q)
    /\ \A p \in Places(drain) :
            LET event == GroupAt(drain, p).event
                first == Record_first(event, INTERNER)
            IN /\ Record_len(event) = p[1]
               /\ first.some
               /\ first.sym = p[2]

\* two groups of equal length in different buckets, one of them generalized
C8_Witness ==
    \E p \in Places(drain) : \E q \in Places(drain) :
        /\ p[1] = q[1]
        /\ p[2] # q[2]
        /\ DOMAIN GroupAt(drain, p).variables # {}

(***************************************************************************)
(* C9: process_line on the empty line returns Ok(false) in every state of  *)
(* the index and leaves the index unchanged.                               *)
(***************************************************************************)
C9_Step ==
    (IsProcessLine /\ last'.arg = <<>>) =>
        (last'.ret = "Ok(false)" /\ drain' = drain)

C9_EmptyLineNoOp == [][C9_Step]_vars

C9_Witness ==
    /\ last.op = "process_line"
    /\ last.arg = <<>>
    /\ last.ret = "Ok(false)"
    /\ NumGroups(drain) >= 1

(***************************************************************************)
(* C10: process_line on any line whose token stream has length 0, also a   *)
(* non-empty line of whitespace only, returns Ok(false) without panicking  *)
(* and without changing the index.                                         *)
(***************************************************************************)
C10_Step ==
    (IsProcessLine /\ NumAtoms(last'.arg) = 0) =>
        (last'.ret = "Ok(false)" /\ drain' = drain)

C10_NoTokensNoOp == [][C10_Step]_vars

(***************************************************************************)
(* C11: set_threshold with a zero denominator returns an error to the      *)
(* caller, does not panic, and leaves the threshold and the groups of the  *)
(* index unchanged.                                                        *)
(***************************************************************************)
C11_Step ==
    (IsSetThreshold /\ last'.arg[2] = 0) =>
        (last'.ret = "Err" /\ drain' = drain)

C11_ZeroDenominatorIsError == [][C11_Step]_vars

(***************************************************************************)
(* C12: in every reachable state the threshold of the index is a rational  *)
(* between 0 and 1, also after set_threshold calls whose numerator is      *)
(* greater than the denominator.                                           *)
(***************************************************************************)
C12_ThresholdInUnitInterval ==
    /\ drain.threshold.denom > 0
    /\ 0 <= drain.threshold.numer
    /\ drain.threshold.numer <= drain.threshold.denom

(***************************************************************************)
(* C13: set_threshold(n, d) and set_threshold(k*n, k*d), k >= 1, store     *)
(* equal thresholds; set_threshold(100, 200) on an index that has the      *)
(* initial threshold 1/2 leaves the index as it was, so that every line    *)
(* processed next returns the same result and builds the same groups.      *)
(***************************************************************************)
C13_Step ==
    (IsSetThreshold /\ last'.arg[2] # 0) =>
        LET n == last'.arg[1]
            d == last'.arg[2]
        IN /\ \A k \in 1..MaxScale :
                set_threshold(drain, k * n, k * d).drain.threshold
                    = drain'.threshold
           /\ drain'.base_layer = drain.base_layer
           /\ (last'.arg = <<100, 200>>
                    /\ drain.threshold = SingleLayer_new.threshold) =>
                /\ drain' = drain
                /\ \A line \in ThresholdLines :
                     LET with == process_line(drain', line, INTERNER, ksuid)
                         without == process_line(drain, line, INTERNER, ksuid)
                     IN /\ with.ret = without.ret
                        /\ with.drain.base_layer = without.drain.base_layer

C13_RepresentationIrrelevant == [][C13_Step]_vars

\* set_threshold(100, 200) was the first call on a fresh index
C13_Witness ==
    /\ last.op = "set_threshold"
    /\ last.arg = <<100, 200>>
    /\ last.ret = "Ok"
    /\ drain = SingleLayer_new
    /\ ksuid = 0

(***************************************************************************)
(* C14: for every group of the index, the number of tokens of the template *)
(* is the number it had when the group was created, and every record in    *)
(* examples has exactly that many tokens.                                  *)
(***************************************************************************)
C14_LengthInvariants ==
    \A p \in Places(drain) :
        LET g == GroupAt(drain, p)
        IN /\ g.id \in DOMAIN origin
           /\ Len(g.event.inner) = Len(origin[g.id])
           /\ \A k \in 1..Len(g.examples) :
                Len(g.examples[k].inner) = Len(g.event.inner)

\* a group of three tokens that absorbed two lines and was generalized
C14_Witness ==
    \E p \in Places(drain) :
        /\ p[1] = 3
        /\ Len(GroupAt(drain, p).examples) = 2
        /\ GroupAt(drain, p).event.inner # origin[GroupAt(drain, p).id]

(***************************************************************************)
(* C15: discover_variables(rec) returns, in ascending position order,      *)
(* exactly one (pos, Wildcard) entry for each position below the shorter   *)
(* of the two lengths that is not a key of variables and where the         *)
(* template token and the token of rec differ, and nothing else; for two   *)
(* 7-atom lines that differ in the last atom only it is [(6, Wildcard)].   *)
(***************************************************************************)
\* the positions the claim asks for
C15_Expected(g, rec) ==
    {pos \in 0..(Len(g.event.inner) - 1) \cap 0..(Len(rec.inner) - 1) :
        /\ pos \notin DOMAIN g.variables
        /\ g.event.inner[pos + 1].token # rec.inner[pos + 1].token}

C15_Exact(g, rec) ==
    LET found == discover_variables(g, rec)
    IN /\ \A k \in 1..Len(found) : found[k][2] = Wildcard
       /\ \A k \in 1..(Len(found) - 1) : found[k][1] < found[k + 1][1]
       /\ {found[k][1] : k \in 1..Len(found)} = C15_Expected(g, rec)
       /\ (/\ Len(g.event.inner) = 7
            /\ Len(rec.inner) = 7
            /\ g.variables = EmptyMap
            /\ \A i \in 1..6 : g.event.inner[i].token = rec.inner[i].token
            /\ g.event.inner[7].token # rec.inner[7].token)
                => found = <<(<<6, Wildcard>>)>>

\* the records built from the lines processed so far: the records that
\* created the groups and the examples
C15_Records ==
    {[inner |-> origin[id], uid |-> id] : id \in DOMAIN origin}
    \cup UNION {{GroupAt(drain, p).examples[k] :
                    k \in 1..Len(GroupAt(drain, p).examples)} :
                p \in Places(drain)}

\* every group of the index against every record built so far
C15_DiscoverVariables ==
    \A p \in Places(drain) : \A rec \in C15_Records :
        C15_Exact(GroupAt(drain, p), rec)

\* a fresh group of one of the 7-atom lines, and a group that already has
\* a variable and differs from one of the lines at another position too
C15_Witness ==
    /\ \E p \in Places(drain) :
            /\ p[1] = 7
            /\ GroupAt(drain, p).variables = EmptyMap
            /\ \E line \in {SevenA, SevenB} :
                 discover_variables(GroupAt(drain, p), RecordOf(line))
                    = <<(<<6, Wildcard>>)>>
    /\ \E p \in Places(drain) : \E line \in Lines :
            /\ NumAtoms(line) = p[1]
            /\ DOMAIN GroupAt(drain, p).variables # {}
            /\ Len(discover_variables(GroupAt(drain, p), RecordOf(line))) = 1
            /\ Len(discover_variables(
                    [GroupAt(drain, p) EXCEPT !.variables = EmptyMap],
                    RecordOf(line))) = 2

(***************************************************************************)
(* C16: when a line is absorbed by a group, its record becomes the last    *)
(* example of the group, variables is the old map plus p -> Wildcard for   *)
(* every position p where the line and the template disagreed, the         *)
(* template token at each such p is Wildcard, and every other template     *)
(* token, the group id, the earlier examples and all other groups are      *)
(* unchanged; a fresh group of one 7-atom line that absorbs the other has  *)
(* one example, variables = {6 -> Wildcard} and a Wildcard as 7th token.   *)
(***************************************************************************)
C16_Absorbed(g, h, rec) ==
    LET D == {pos \in 0..(Len(g.event.inner) - 1) :
                g.event.inner[pos + 1].token # rec.inner[pos + 1].token}
    IN /\ h.id = g.id
       /\ h.event.uid = g.event.uid
       /\ h.examples = Append(g.examples, rec)
       /\ DOMAIN h.variables = DOMAIN g.variables \cup D
       /\ \A pos \in DOMAIN h.variables :
            h.variables[pos] =
                IF pos \in D THEN Wildcard ELSE g.variables[pos]
       /\ Len(h.event.inner) = Len(g.event.inner)
       /\ \A pos \in 0..(Len(g.event.inner) - 1) :
            /\ h.event.inner[pos + 1].offset = g.event.inner[pos + 1].offset
            /\ h.event.inner[pos + 1].token =
                    IF pos \in D THEN Wildcard
                    ELSE g.event.inner[pos + 1].token
       /\ (g.examples = <<>> /\ Len(rec.inner) = 7 /\ D = {6}) =>
            /\ Len(h.examples) = 1
            /\ h.variables = MapInsert(EmptyMap, 6, Wildcard)
            /\ h.event.inner[7].token = Wildcard

C16_Step ==
    (IsProcessLine /\ last'.ret = "Ok(false)" /\ last'.arg # <<>>) =>
        LET rec == RecordOf(last'.arg)
        IN /\ Places(drain') = Places(drain)
           /\ \E p \in Places(drain) :
                /\ C16_Absorbed(GroupAt(drain, p), GroupAt(drain', p), rec)
                /\ \A q \in Places(drain) \ {p} :
                        GroupAt(drain', q) = GroupAt(drain, q)

C16_AbsorptionPostcondition == [][C16_Step]_vars

\* the group of one 7-atom line has just absorbed the other one
C16_Witness ==
    /\ last.op = "process_line"
    /\ last.ret = "Ok(false)"
    /\ \E p \in Places(drain) :
            /\ p[1] = 7
            /\ Len(GroupAt(drain, p).examples) = 1
            /\ GroupAt(drain, p).examples[1].inner = RecordOf(last.arg).inner
            /\ GroupAt(drain, p).variables = MapInsert(EmptyMap, 6, Wildcard)
            /\ GroupAt(drain, p).event.inner[7].token = Wildcard

(***************************************************************************)
(* C17: a line whose (token count, first token) pair has no bucket yet     *)
(* returns Ok(true) whatever the threshold, and its bucket is then a list  *)
(* of exactly one group, new, made of the record of the line; the lines    *)
(* placed in one group all have the token count and the first token of     *)
(* the line that created the group.                                        *)
(***************************************************************************)
C17_Step ==
    IsProcessLine =>
        LET line == last'.arg
            atoms == split_ascii_whitespace(line)
            L == Len(atoms)
            K == FirstKey(atoms)
        IN (L >= 1 /\ ~HasBucket(drain, L, K)) =>
            LET rec == RecordOf(line)
                K2 == Lookup(INTERNER', Head(atoms))
            IN /\ last'.ret = "Ok(true)"
               /\ HasBucket(drain', L, K2)
               /\ Bucket(drain', L, K2) = <<LogGroup_new(rec)>>
               /\ \A p \in Places(drain) :
                    p \in Places(drain')
                        /\ GroupAt(drain', p) = GroupAt(drain, p)
               /\ NumGroups(drain') = NumGroups(drain) + 1

C17_SameKeys(g) ==
    /\ g.id \in DOMAIN origin
    /\ \A k \in 1..Len(g.examples) :
        /\ Len(g.examples[k].inner) = Len(origin[g.id])
        /\ g.examples[k].inner[1].token = origin[g.id][1].token

C17_NewBucket ==
    /\ [](\A p \in Places(drain) : C17_SameKeys(GroupAt(drain, p)))
    /\ [][C17_Step]_vars

\* with threshold 0 a line opened a bucket of its own beside a bucket of
\* the same length and another first token
C17_Witness ==
    /\ drain.threshold.numer = 0
    /\ last.op = "process_line"
    /\ last.ret = "Ok(true)"
    /\ \E p \in Places(drain) : \E q \in Places(drain) :
            /\ p[1] = q[1]
            /\ p[2] # q[2]
            /\ GroupAt(drain, q).id = ksuid
            /\ Len(Bucket(drain, q[1], q[2])) = 1
            /\ GroupAt(drain, p).id < ksuid

(***************************************************************************)
(* C18: iter_groups returns one outer sequence per distinct token count    *)
(* of the index (three lines of three lengths give three), every group of  *)
(* the index appears exactly once, in the outer sequence of its length,    *)
(* and the groups of one bucket appear in their insertion order.           *)
(***************************************************************************)
\* where the group of place p appears in the result: <<i, j>>
C18_Seats(ret, p) ==
    {<<i, j>> \in UNION {{<<i, j>> : j \in 1..Len(ret[i])} :
                            i \in 1..Len(ret)} :
        ret[i][j].id = GroupAt(drain, p).id}

C18_Listing(ret) ==
    /\ Len(ret) = Cardinality(DOMAIN drain.base_layer)
    /\ \A i \in 1..Len(ret) : \A j \in 1..Len(ret[i]) :
            \E p \in Places(drain) : ret[i][j] = GroupAt(drain, p)
    /\ \A p \in Places(drain) : Cardinality(C18_Seats(ret, p)) = 1
    /\ \A p \in Places(drain) : \A q \in Places(drain) :
            \A s \in C18_Seats(ret, p) : \A t \in C18_Seats(ret, q) :
                /\ (p[1] = q[1]) <=> (s[1] = t[1])
                /\ (p[1] = q[1] /\ p[2] = q[2] /\ p[3] < q[3]) =>
                        s[2] < t[2]

C18_IterGroups == (last.op = "iter_groups") => C18_Listing(last.groups)

\* three lines of three different lengths were processed and listed
C18_Witness ==
    /\ last.op = "iter_groups"
    /\ Len(last.groups) = 3
    /\ NumGroups(drain) = 3
    /\ calls.atoms = 3

(***************************************************************************)
(* C19: across every call no group is removed from the index or moved to   *)
(* another place, the number of groups never decreases, and a new group    *)
(* is the last one of its bucket, so the relative order of the groups of   *)
(* a bucket never changes.                                                 *)
(***************************************************************************)
C19_Step ==
    /\ \A p \in Places(drain) :
            /\ p \in Places(drain')
            /\ GroupAt(drain', p).id = GroupAt(drain, p).id
    /\ NumGroups(drain') >= NumGroups(drain)
    /\ \A q \in Places(drain') \ Places(drain) :
            q[3] = Len(Bucket(drain', q[1], q[2]))

C19_AppendOnly == [][C19_Step]_vars

\* a bucket of two groups whose first group absorbed a line after the
\* second group was added
C19_Witness ==
    \E p \in Places(drain) :
        /\ p[3] = 2
        /\ LET first == Bucket(drain, p[1], p[2])[1]
           IN /\ first.id < GroupAt(drain, p).id
              /\ first.examples # <<>>
              /\ first.examples[1].uid > GroupAt(drain, p).id

(***************************************************************************)
(* C20: new(domain) returns an error when one of the domain patterns is    *)
(* not a valid regex; otherwise it returns an index with no groups and     *)
(* threshold exactly 1/2; new with an empty domain always succeeds.        *)
(***************************************************************************)
\* the patterns of DomainPatterns that are not regular expressions: an
\* unclosed group and a repetition of nothing
C20_Invalid == {<<"(">>, <<"*">>}

C20_Step ==
    IsNew =>
        LET domain == last'.arg
        IN /\ (\E i \in 1..Len(domain) : domain[i] \in C20_Invalid) =>
                last'.ret = "Err"
           /\ (\A i \in 1..Len(domain) : domain[i] \notin C20_Invalid) =>
                /\ last'.ret = "Ok"
                /\ NumGroups(drain') = 0
                /\ drain'.base_layer = EmptyMap
                /\ drain'.threshold = [numer |-> 1, denom |-> 2]
                /\ 2 * drain'.threshold.numer = drain'.threshold.denom
           /\ (domain = <<>>) => (last'.ret = "Ok")

C20_Construction == [][C20_Step]_vars

\* a construction failed on its second pattern while the caller held an
\* index with groups
C20_Witness ==
    /\ last.op = "new"
    /\ last.ret = "Err"
    /\ Len(last.arg) = 2
    /\ last.arg[1] \notin C20_Invalid
    /\ last.arg[2] \in C20_Invalid
    /\ NumGroups(drain) >= 1

(***************************************************************************)
(* C21: process_line is deterministic up to the values of the symbols: an  *)
(* index that holds the same groups over an interner with another history  *)
(* (other strings interned before, hence other symbol values) returns the  *)
(* same result for the same line and ends with the same groups, templates  *)
(* and examples, symbol for symbol under the renaming.                     *)
(***************************************************************************)
\* strings interned before the index saw its first line
C21_Prehistories == {<<(<<"z">>)>>, <<(<<"b">>)>>, <<(<<"b">>), (<<"a">>)>>}

\* the table after interning the strings in order
RECURSIVE C21_InternAll(_, _)
C21_InternAll(table, strs) ==
    IF strs = <<>> THEN table
    ELSE C21_InternAll(get_or_intern(table, Head(strs)).table, Tail(strs))

\* the token, record, group and index with every symbol of table from
\* replaced by the symbol of the same string in table to
C21_Token(tok, from, to) ==
    IF tok.kind = "Value"
    THEN Value(TypedToken_String(Lookup(to, from[tok.value.sym])))
    ELSE tok

C21_Record(rec, from, to) ==
    [inner |-> [i \in 1..Len(rec.inner) |->
                    [offset |-> rec.inner[i].offset,
                     token |-> C21_Token(rec.inner[i].token, from, to)]],
     uid |-> rec.uid]

C21_Group(g, from, to) ==
    [id |-> g.id,
     event |-> C21_Record(g.event, from, to),
     examples |-> [k \in 1..Len(g.examples) |->
                        C21_Record(g.examples[k], from, to)],
     variables |-> g.variables]

C21_Layer(layer, from, to) ==
    [f \in {Lookup(to, from[k]) : k \in DOMAIN layer} |->
        LET k == CHOOSE k \in DOMAIN layer : Lookup(to, from[k]) = f
        IN [i \in 1..Len(layer[k]) |-> C21_Group(layer[k][i], from, to)]]

C21_Index(d, from, to) ==
    [d EXCEPT !.base_layer =
        [l \in DOMAIN d.base_layer |-> C21_Layer(d.base_layer[l], from, to)]]

C21_Step ==
    (IsProcessLine /\ NumAtoms(last'.arg) >= 1) =>
        \A pre \in C21_Prehistories :
            LET other == C21_InternAll(pre, INTERNER)
                r == process_line(C21_Index(drain, INTERNER, other),
                                  last'.arg, other, ksuid)
            IN /\ r.ret = last'.ret
               /\ r.table = C21_InternAll(pre, INTERNER')
               /\ r.drain = C21_Index(drain', INTERNER', r.table)

C21_Deterministic == [][C21_Step]_vars

\* a line was absorbed and generalized its group while the symbols of its
\* atoms are swapped under one of the other histories
C21_Witness ==
    /\ last.op = "process_line"
    /\ last.ret = "Ok(false)"
    /\ INTERNER = <<(<<"a">>), (<<"b">>)>>
    /\ \E p \in Places(drain) : DOMAIN GroupAt(drain, p).variables # {}
    /\ \E pre \in C21_Prehistories :
            C21_InternAll(pre, INTERNER) = <<(<<"b">>), (<<"a">>)>>

(***************************************************************************)
(* Token::from_parse as a function of the set of matching patterns: every  *)
(* initial state holds an input and the indices of the patterns taken to   *)
(* match it; the call classifies the input.  The regular expressions are   *)
(* not evaluated: every set of indices is offered.                         *)
(***************************************************************************)
ParseInputs == {<<"_">>, <<"_", "a">>}

ParseInit ==
    /\ drain = SingleLayer_new
    /\ INTERNER = <<>>
    /\ ksuid = 0
    /\ \E input \in ParseInputs : \E matches \in SUBSET (0..GROKKER_COUNT) :
            last = [op |-> "input", arg |-> input, ret |-> "Ok",
                    matches |-> matches]
    /\ origin = EmptyMap
    /\ calls = [atoms |-> 0, sets |-> 0, news |-> 0, records |-> 0]
    /\ lock = RwLock_new
    /\ pc = [t \in Threads |-> Idle]
    /\ statics = Statics_new

FromParse ==
    /\ last.op = "input"
    /\ LET parsed == Token_from_parse(last.arg, last.matches, INTERNER)
       IN /\ INTERNER' = parsed.table
          /\ last' = [op |-> "Token::from_parse", arg |-> last.arg,
                      ret |-> "Ok", matches |-> last.matches,
                      token |-> parsed.token]
    /\ UNCHANGED <<drain, ksuid, origin, calls, lock, pc, statics>>

ParseNext == FromParse

ParseSpec == ParseInit /\ [][ParseNext]_vars

(***************************************************************************)
(* Threads that call the functions taking the interner lock.  A call is    *)
(* three steps: the thread enters the function and asks for the lock, the  *)
(* lock is granted, the function does its work on the interner and drops   *)
(* the guard when it returns.                                              *)
(***************************************************************************)
LockLines == {<<"a">>, <<"a", " ", "b">>}

LockInputs == {<<"b">>}

\* the calls a thread can make now: tokenize a line, parse an input into a
\* String token, resolve a symbol handed out earlier or the next symbol,
\* which is not handed out yet
LockCalls ==
    {[op |-> "from_unicode_line", arg |-> line] : line \in LockLines}
    \cup {[op |-> "TypedToken::from_parse", arg |-> input] :
            input \in LockInputs}
    \cup {[op |-> "Record::resolve", arg |-> sym] :
            sym \in 1..(Len(INTERNER) + 1)}

\* thread t enters a function; the calls of the functions that can intern
\* are counted
Call(t, c) ==
    /\ pc[t].at = "idle"
    /\ (c.op # "Record::resolve") => (calls.records < MaxRecords)
    /\ pc' = [pc EXCEPT ![t] = [at |-> "waiting", op |-> c.op, arg |-> c.arg,
                                 mode |-> lock_mode(c.op)]]
    /\ calls' = IF c.op # "Record::resolve"
                THEN [calls EXCEPT !.records = @ + 1]
                ELSE calls
    /\ UNCHANGED <<drain, INTERNER, ksuid, last, origin, lock, statics>>

\* INTERNER.read() returns the guard to thread t; INTERNER.write() takes
\* the writer bit and returns the guard when there is no reader, or else
\* waits for the readers
Acquire(t) ==
    /\ pc[t].at = "waiting"
    /\ IF pc[t].mode = "write" THEN can_write(lock) ELSE can_read(lock)
    /\ lock' = acquire(lock, t, pc[t].mode)
    /\ pc' = [pc EXCEPT ![t].at =
                IF pc[t].mode = "write" /\ ~readers_gone(lock)
                THEN "draining" ELSE "locked"]
    /\ UNCHANGED <<drain, INTERNER, ksuid, last, origin, calls, statics>>

\* the last reader has dropped its guard: INTERNER.write() returns the
\* guard to the thread that waited with the writer bit
Drained(t) ==
    /\ pc[t].at = "draining"
    /\ readers_gone(lock)
    /\ pc' = [pc EXCEPT ![t].at = "locked"]
    /\ UNCHANGED <<drain, INTERNER, ksuid, last, origin, calls, lock,
                   statics>>

\* the function of thread t works on the interner and returns; the guard
\* is dropped
Return(t) ==
    /\ pc[t].at = "locked"
    /\ LET op == pc[t].op
           arg == pc[t].arg
           done == [op |-> op, arg |-> arg, ret |-> "Ok", thread |-> t,
                    mode |-> pc[t].mode, hit |-> TRUE]
       IN IF op = "from_unicode_line"
          THEN LET ts == from_unicode_line(arg, INTERNER)
               IN /\ INTERNER' = ts.table
                  /\ last' = [done EXCEPT !.hit = (ts.table = INTERNER)]
          ELSE IF op = "TypedToken::from_parse"
          THEN LET typed == TypedToken_from_parse(arg, INTERNER)
               IN /\ INTERNER' = typed.table
                  /\ last' = [done EXCEPT !.hit = (typed.table = INTERNER)]
          ELSE /\ INTERNER' = INTERNER
               /\ last' = [op |-> op, arg |-> arg, ret |-> "Ok",
                           thread |-> t, mode |-> pc[t].mode, hit |-> TRUE,
                           found |-> Record_resolve(INTERNER, arg)]
    /\ lock' = release(lock, t, pc[t].mode)
    /\ pc' = [pc EXCEPT ![t] = Idle]
    /\ UNCHANGED <<drain, ksuid, origin, calls, statics>>

LockNext ==
    \/ \E t \in Threads : \E c \in LockCalls : Call(t, c)
    \/ \E t \in Threads : Acquire(t)
    \/ \E t \in Threads : Drained(t)
    \/ \E t \in Threads : Return(t)

LockSpec == Init /\ [][LockNext]_vars

(***************************************************************************)
(* The index with a threshold that is fixed: the caller may set it once,   *)
(* before the first line, and then only processes lines.                   *)
(***************************************************************************)
FixedThresholds == {<<0, 1>>, <<1, 2>>, <<2, 3>>, <<99, 100>>, <<1, 1>>}

\* set_threshold as the first call on the index
SetThresholdFirst(numerator, denominator) ==
    /\ last.op = "new"
    /\ SetThreshold(numerator, denominator)

FixedNext ==
    \/ \E line \in Lines : ProcessLine(line)
    \/ \E t \in FixedThresholds : SetThresholdFirst(t[1], t[2])

FixedSpec == Init /\ [][FixedNext]_vars

(***************************************************************************)
(* Threads that each own an index and call process_line on it, render a    *)
(* token or convert a token into a symbol, all on the one interner.  A     *)
(* call is split at the points where the thread asks for the interner      *)
(* lock, works on the table under the guard, and drops the guard.          *)
(***************************************************************************)
\* two lines share their two words, one of which spells the name of a
\* class
ConcLines ==
    {<<>>, <<" ">>, <<"a", " ", "U", "U", "I", "D">>,
     <<"U", "U", "I", "D", " ", "a">>}

\* a thread in no call: it owns its index; built is the line of every
\* record the thread has built, by uid
ConcIdle(d, built) ==
    [at |-> "idle", op |-> "", arg |-> <<>>, mode |-> "", work |-> <<>>,
     reads |-> 0, drain |-> d, built |-> built]

ConcInit ==
    /\ drain = SingleLayer_new
    /\ INTERNER = <<>>
    /\ ksuid = 0
    /\ last = [op |-> "new", arg |-> <<>>, ret |-> "Ok"]
    /\ origin = EmptyMap
    /\ calls = [atoms |-> 0, sets |-> 0, news |-> 0, records |-> 0]
    /\ lock = RwLock_new
    /\ pc = [t \in Threads |-> ConcIdle(SingleLayer_new, EmptyMap)]
    /\ statics = Statics_new

\* the tokens a thread can hand to Display or to the conversion: those of
\* its index, a Wildcard, a TypedMatch, the numbers 5 and 1.5, the String
\* of the first symbol and the String of the symbol that is not handed out
\* yet
ConcTokens(t) ==
    {Wildcard, TypedMatch("UUID"), Value(TypedToken_Int(5)),
     Value(TypedToken_Float(15)), Value(TypedToken_String(1)),
     Value(TypedToken_String(Len(INTERNER) + 1))}
    \cup TokensHeld(pc[t].drain)

\* the lazy static a conversion of the token dereferences
static_of(tok) ==
    IF tok.kind = "Wildcard" THEN "ASTERISK"
    ELSE IF tok.kind = "TypedMatch" THEN "GROKKER_SYMS"
    ELSE "none"

\* the strings the initialiser of the static interns, one write lock each:
\* "*" for ASTERISK, the name of every class for GROKKER_SYMS
static_names(static) ==
    IF static = "ASTERISK" THEN <<(<<"*">>)>>
    ELSE [i \in 1..Len(GROKKER_VARIANTS) |->
             Grokker_to_string(GROKKER_VARIANTS[i])]

\* process_line begins: the empty line returns at once, any other line
\* enters Record::new and from_unicode_line, which asks for the write lock
CallProcessLine(t, line) ==
    /\ pc[t].at = "idle"
    /\ calls.records < MaxRecords
    /\ calls' = [calls EXCEPT !.records = @ + 1]
    /\ IF is_empty_line(line)
       THEN /\ last' = [op |-> "process_line", arg |-> line,
                        ret |-> "Ok(false)", thread |-> t]
            /\ pc' = pc
       ELSE /\ pc' = [pc EXCEPT ![t].at = "waiting",
                                ![t].op = "process_line",
                                ![t].arg = line,
                                ![t].mode = lock_mode("from_unicode_line")]
            /\ last' = last
    /\ UNCHANGED <<drain, INTERNER, ksuid, origin, lock, statics>>

\* from_unicode_line, holding the guard, looks the words up in the table
\* and builds the stream and the table with the new words
Tokenize(t) ==
    /\ pc[t].at = "locked"
    /\ pc[t].op = "process_line"
    /\ pc' = [pc EXCEPT ![t].at = "tokenized",
                        ![t].work = from_unicode_line(pc[t].arg, INTERNER)]
    /\ UNCHANGED <<drain, INTERNER, ksuid, last, origin, calls, lock, statics>>

\* from_unicode_line returns: the table holds the new words and the guard
\* is dropped
Unlock(t) ==
    /\ pc[t].at = "tokenized"
    /\ INTERNER' = pc[t].work.table
    /\ lock' = release(lock, t, pc[t].mode)
    /\ pc' = [pc EXCEPT ![t].at = "unlocked",
                        ![t].work = pc[t].work.inner]
    /\ UNCHANGED <<drain, ksuid, last, origin, calls, statics>>

\* Record::new then evaluates Ksuid::new(): the record is built
NewKsuid(t) ==
    /\ pc[t].at = "unlocked"
    /\ ksuid' = ksuid + 1
    /\ pc' = [pc EXCEPT ![t].at = "classify",
                        ![t].op = "calc_sim_score",
                        ![t].work = [inner |-> pc[t].work, uid |-> ksuid + 1],
                        ![t].built = MapInsert(pc[t].built, ksuid + 1,
                                               pc[t].arg)]
    /\ UNCHANGED <<drain, INTERNER, last, origin, calls, lock, statics>>

\* the tokens calc_sim_score renders for its debug! events while the
\* groups of the bucket are scored: both tokens of every matching pair
RECURSIVE count_renders(_, _, _)
count_renders(new_record, log_groups, i) ==
    IF i > Len(log_groups) THEN 0
    ELSE 2 * calc_sim_score(new_record, log_groups[i].event)
         + count_renders(new_record, log_groups, i + 1)

\* the renders of the rest of the call of thread t: none when first() is
\* None or when the record opens a bucket
renders_of(t) ==
    LET rec == pc[t].work
        first == Record_first(rec, INTERNER)
        length == Record_len(rec)
    IN IF first.some /\ HasBucket(pc[t].drain, length, first.sym)
       THEN count_renders(rec, Bucket(pc[t].drain, length, first.sym), 1)
       ELSE 0

\* DEBUG events are enabled: scoring renders the tokens of the matching
\* pairs, each by Display for Token, which asks for the read lock
BeginScore(t) ==
    /\ pc[t].at = "classify"
    /\ renders_of(t) > 0
    /\ pc' = [pc EXCEPT ![t].at = "waiting",
                        ![t].mode = lock_mode("Display for Token"),
                        ![t].reads = renders_of(t)]
    /\ UNCHANGED <<drain, INTERNER, ksuid, last, origin, calls, lock, statics>>

\* one token is rendered under the read guard, which is dropped
Rendered(t) ==
    /\ pc[t].at = "locked"
    /\ pc[t].op = "calc_sim_score"
    /\ lock' = release(lock, t, pc[t].mode)
    /\ pc' = [pc EXCEPT ![t].at = IF pc[t].reads > 1 THEN "waiting"
                                  ELSE "scored",
                        ![t].reads = pc[t].reads - 1]
    /\ UNCHANGED <<drain, INTERNER, ksuid, last, origin, calls, statics>>

\* the rest of process_line on the thread's own index: first().expect(..)
\* and the search of the bucket, with the events rendered or with DEBUG
\* events disabled
Classify(t) ==
    /\ pc[t].at \in {"classify", "scored"}
    /\ LET rec == pc[t].work
           first == Record_first(rec, INTERNER)
       IN IF ~first.some
          THEN /\ pc' = [pc EXCEPT ![t].at = "panicked"]
               /\ last' = [op |-> "process_line", arg |-> pc[t].arg,
                           ret |-> "Panic", thread |-> t]
          ELSE LET r == classify(pc[t].drain, rec, Record_len(rec),
                                 first.sym)
               IN /\ pc' = [pc EXCEPT ![t] = ConcIdle(r.drain, pc[t].built)]
                  /\ last' = [op |-> "process_line", arg |-> pc[t].arg,
                              ret |-> r.ret, thread |-> t]
    /\ UNCHANGED <<drain, INTERNER, ksuid, origin, calls, lock, statics>>

\* Display for Token: a Value(String) asks for the read lock, the other
\* tokens are written without the interner
CallDisplay(t, tok) ==
    /\ pc[t].at = "idle"
    /\ calls.records < MaxRecords
    /\ calls' = [calls EXCEPT !.records = @ + 1]
    /\ IF tok.kind = "Value" /\ tok.value.kind = "String"
       THEN /\ pc' = [pc EXCEPT ![t].at = "waiting",
                                ![t].op = "Display for Token",
                                ![t].arg = tok,
                                ![t].mode = lock_mode("Display for Token")]
            /\ last' = last
       ELSE /\ pc' = pc
            /\ last' = [op |-> "Display for Token", arg |-> tok,
                        thread |-> t,
                        ret |-> Token_to_string(tok, INTERNER).ret,
                        text |-> Token_to_string(tok, INTERNER).text]
    /\ UNCHANGED <<drain, INTERNER, ksuid, origin, lock, statics>>

\* the symbol is resolved under the read guard, which is then dropped,
\* also when the symbol does not resolve and the thread panics
DisplayReturn(t) ==
    /\ pc[t].at = "locked"
    /\ pc[t].op = "Display for Token"
    /\ LET r == Token_to_string(pc[t].arg, INTERNER)
       IN IF r.ret = "Ok"
          THEN /\ last' = [op |-> "Display for Token", arg |-> pc[t].arg,
                           thread |-> t, ret |-> "Ok", text |-> r.text]
               /\ pc' = [pc EXCEPT ![t] = ConcIdle(pc[t].drain,
                                                   pc[t].built)]
          ELSE /\ last' = [op |-> "Display for Token", arg |-> pc[t].arg,
                           thread |-> t, ret |-> "Panic"]
               /\ pc' = [pc EXCEPT ![t].at = "panicked"]
    /\ lock' = release(lock, t, pc[t].mode)
    /\ UNCHANGED <<drain, INTERNER, ksuid, origin, calls, statics>>

\* From<Token> for DefaultSymbol: a Value(String) is its symbol; the text of
\* a number is interned under the write lock; a Wildcard dereferences
\* ASTERISK and a TypedMatch GROKKER_SYMS: the first thread to do so runs the
\* initialiser, a thread that comes while it runs waits for it, a later
\* thread reads the value
CallIntoSymbol(t, tok) ==
    /\ pc[t].at = "idle"
    /\ calls.records < MaxRecords
    /\ calls' = [calls EXCEPT !.records = @ + 1]
    /\ LET static == static_of(tok)
           op == IF static = "ASTERISK" THEN "ASTERISK"
                 ELSE "symbolize_grokker"
       IN IF static = "none" /\ tok.value.kind # "String"
          THEN /\ pc' = [pc EXCEPT
                    ![t].at = "waiting",
                    ![t].op = "From<Token> for DefaultSymbol",
                    ![t].arg = tok,
                    ![t].mode = lock_mode("From<Token> for DefaultSymbol")]
               /\ last' = last
               /\ statics' = statics
          ELSE IF static = "none" \/ statics[static] = "done"
          THEN /\ last' = [op |-> "From<Token> for DefaultSymbol",
                           arg |-> tok, ret |-> "Ok", thread |-> t,
                           sym |-> Token_into_symbol(tok, INTERNER).sym]
               /\ pc' = pc
               /\ statics' = statics
          ELSE IF statics[static] = "uninit"
          THEN /\ statics' = [statics EXCEPT ![static] = "running"]
               /\ pc' = [pc EXCEPT ![t].at = "waiting",
                                   ![t].op = op,
                                   ![t].arg = tok,
                                   ![t].mode = lock_mode(op),
                                   ![t].work = static_names(static)]
               /\ last' = last
          ELSE /\ pc' = [pc EXCEPT ![t].at = "once_wait",
                                   ![t].op = op,
                                   ![t].arg = tok]
               /\ last' = last
               /\ statics' = statics
    /\ UNCHANGED <<drain, INTERNER, ksuid, origin, lock>>

\* the text of the number is interned under the write guard, which is
\* dropped, and the conversion returns its symbol
InternNumber(t) ==
    /\ pc[t].at = "locked"
    /\ pc[t].op = "From<Token> for DefaultSymbol"
    /\ LET into == Token_into_symbol(pc[t].arg, INTERNER)
       IN /\ INTERNER' = into.table
          /\ last' = [op |-> "From<Token> for DefaultSymbol",
                      arg |-> pc[t].arg, ret |-> "Ok", thread |-> t,
                      sym |-> into.sym]
    /\ lock' = release(lock, t, pc[t].mode)
    /\ pc' = [pc EXCEPT ![t] = ConcIdle(pc[t].drain, pc[t].built)]
    /\ UNCHANGED <<drain, ksuid, origin, calls, statics>>

\* the initialiser interns one string under the write guard and drops the
\* guard; after the last string the initialiser has still to return
InternStatic(t) ==
    /\ pc[t].at = "locked"
    /\ pc[t].op \in {"ASTERISK", "symbolize_grokker"}
    /\ INTERNER' = get_or_intern(INTERNER, Head(pc[t].work)).table
    /\ lock' = release(lock, t, pc[t].mode)
    /\ pc' = [pc EXCEPT ![t].at = IF Len(pc[t].work) > 1 THEN "waiting"
                                  ELSE "collected",
                        ![t].work = Tail(pc[t].work)]
    /\ UNCHANGED <<drain, ksuid, last, origin, calls, statics>>

\* the initialiser returns with no guard held: the Once of the static is
\* complete and the conversion returns the symbol
OnceComplete(t) ==
    /\ pc[t].at = "collected"
    /\ statics' = [statics EXCEPT ![static_of(pc[t].arg)] = "done"]
    /\ last' = [op |-> "From<Token> for DefaultSymbol", arg |-> pc[t].arg,
                ret |-> "Ok", thread |-> t,
                sym |-> Token_into_symbol(pc[t].arg, INTERNER).sym]
    /\ pc' = [pc EXCEPT ![t] = ConcIdle(pc[t].drain, pc[t].built)]
    /\ UNCHANGED <<drain, INTERNER, ksuid, origin, calls, lock>>

\* the thread that waited for the initialiser of another thread goes on
OnceReturn(t) ==
    /\ pc[t].at = "once_wait"
    /\ statics[static_of(pc[t].arg)] = "done"
    /\ last' = [op |-> "From<Token> for DefaultSymbol", arg |-> pc[t].arg,
                ret |-> "Ok", thread |-> t,
                sym |-> Token_into_symbol(pc[t].arg, INTERNER).sym]
    /\ pc' = [pc EXCEPT ![t] = ConcIdle(pc[t].drain, pc[t].built)]
    /\ UNCHANGED <<drain, INTERNER, ksuid, origin, calls, lock, statics>>

\* the steps a thread takes by itself once it is in a call
ConcProgress(t) ==
    \/ Acquire(t)
    \/ Drained(t)
    \/ Tokenize(t)
    \/ Unlock(t)
    \/ NewKsuid(t)
    \/ BeginScore(t)
    \/ Rendered(t)
    \/ Classify(t)
    \/ DisplayReturn(t)
    \/ InternNumber(t)
    \/ InternStatic(t)
    \/ OnceComplete(t)
    \/ OnceReturn(t)

ConcNext ==
    \/ \E t \in Threads : \E line \in ConcLines : CallProcessLine(t, line)
    \/ \E t \in Threads : \E tok \in ConcTokens(t) : CallDisplay(t, tok)
    \/ \E t \in Threads : \E tok \in ConcTokens(t) : CallIntoSymbol(t, tok)
    \/ \E t \in Threads : ConcProgress(t)

ConcSpec == ConcInit /\ [][ConcNext]_vars

\* the lines of the runs that are followed to their end: the lock is taken
\* in the same way for every line that is not empty, and the empty line
\* returns without the lock; the word of the last line spells the name of
\* a class
LiveLines == {<<" ">>, <<"U", "U", "I", "D">>}

\* the tokens rendered in these runs: the String of the first symbol, the
\* one rendering that asks for the lock
LiveRendered == {Value(TypedToken_String(1))}

\* the tokens converted in these runs: a Wildcard and a TypedMatch, whose
\* conversion initialises the statics
LiveConverted == {Wildcard, TypedMatch("UUID")}

\* the steps a thread takes by itself in these calls
LiveProgress(t) ==
    \/ Acquire(t)
    \/ Drained(t)
    \/ Tokenize(t)
    \/ Unlock(t)
    \/ NewKsuid(t)
    \/ BeginScore(t)
    \/ Rendered(t)
    \/ Classify(t)
    \/ DisplayReturn(t)
    \/ InternStatic(t)
    \/ OnceComplete(t)
    \/ OnceReturn(t)

LiveNext ==
    \/ \E t \in Threads : \E line \in LiveLines : CallProcessLine(t, line)
    \/ \E t \in Threads : \E tok \in LiveRendered : CallDisplay(t, tok)
    \/ \E t \in Threads : \E tok \in LiveConverted : CallIntoSymbol(t, tok)
    \/ \E t \in Threads : LiveProgress(t)

\* a thread in a call is scheduled again, and a thread that waits for the
\* lock gets it once the lock stays free
LiveSpec ==
    /\ ConcInit
    /\ [][LiveNext]_vars
    /\ \A t \in Threads : WF_vars(LiveProgress(t))

(***************************************************************************)
(* Views of a line used by the tokenization properties, stated on the      *)
(* characters of the line.                                                 *)
(***************************************************************************)
\* a record was built by the last call or has just been rendered
HasRecord == last.op \in {"Record::new", "to_string"}

\* the 1-based places where an atom starts: a character that is not
\* whitespace at the start of the line or after whitespace
AtomStarts(line) ==
    {i \in 1..Len(line) :
        /\ line[i] \notin AsciiWhitespace
        /\ (i = 1 \/ line[i - 1] \in AsciiWhitespace)}

\* the place of the last character of the atom that starts at i
AtomEnd(line, i) ==
    CHOOSE j \in i..Len(line) :
        /\ \A k \in i..j : line[k] \notin AsciiWhitespace
        /\ (j = Len(line) \/ line[j + 1] \in AsciiWhitespace)

AtomText(line, i) == SubSeq(line, i, AtomEnd(line, i))

(***************************************************************************)
(* C22: interning equal strings yields equal symbols, interning distinct   *)
(* strings yields distinct symbols, and resolve(intern(s)) = s, after any  *)
(* sequence of earlier intern operations; the first symbol of a record     *)
(* resolves to the first atom of its line.                                 *)
(***************************************************************************)
\* the result of resolve for a symbol of the table
C22_Resolved(s) == [ret |-> "Ok", string |-> s]

C22_Strings == {<<"a">>, <<"b">>, <<"a", "a">>, <<"a", "b">>, <<"*">>}

C22_InternerRoundTrip ==
    /\ \A i \in 1..Len(INTERNER) : \A j \in 1..Len(INTERNER) :
            (INTERNER[i] = INTERNER[j]) => (i = j)
    /\ \A x \in C22_Strings :
            LET once == get_or_intern(INTERNER, x)
                twice == get_or_intern(once.table, x)
            IN /\ twice.sym = once.sym
               /\ twice.table = once.table
               /\ resolve(once.table, once.sym) = C22_Resolved(x)
               /\ \A y \in C22_Strings \ {x} :
                    LET other == get_or_intern(once.table, y)
                    IN /\ other.sym # once.sym
                       /\ get_or_intern(other.table, x).sym = once.sym
                       /\ resolve(other.table, once.sym) = C22_Resolved(x)
                       /\ resolve(other.table, other.sym) = C22_Resolved(y)
    /\ (HasRecord /\ AtomStarts(last.arg) # {}) =>
            LET first == Record_first(last.rec, INTERNER)
                start == CHOOSE i \in AtomStarts(last.arg) :
                            \A j \in AtomStarts(last.arg) : i <= j
            IN first.some
                /\ resolve(INTERNER, first.sym)
                        = C22_Resolved(AtomText(last.arg, start))

\* the second record repeats an atom interned by the first one and brings
\* a new one
C22_Witness ==
    /\ HasRecord
    /\ calls.records = 2
    /\ Len(INTERNER) >= 2
    /\ Len(last.rec.inner) >= 2
    /\ \E i \in 1..Len(last.rec.inner) : \E j \in 1..Len(last.rec.inner) :
            /\ i < j
            /\ last.rec.inner[i].token.value.sym = Len(INTERNER)
            /\ last.rec.inner[j].token.value.sym = 1

(***************************************************************************)
(* C24: every token of the stream built from a line is                     *)
(* Value(String(symbol of the atom)) for the whitespace-separated atom at  *)
(* the same position, in order; tokenization produces no Wildcard,         *)
(* TypedMatch, Int or Float token, also for atoms that look like numbers.  *)
(***************************************************************************)
C24_NoTypeInference ==
    HasRecord =>
        LET starts == SetToSeq(AtomStarts(last.arg))
            inner == last.rec.inner
        IN /\ Len(inner) = Len(starts)
           /\ \A k \in 1..Len(inner) :
                /\ inner[k].token.kind = "Value"
                /\ inner[k].token.value.kind = "String"
                /\ inner[k].token.value.sym \in 1..Len(INTERNER)
                /\ INTERNER[inner[k].token.value.sym]
                        = AtomText(last.arg, starts[k])

\* the record of a line with an atom of decimal digits and a hexadecimal
\* atom
C24_Witness ==
    /\ HasRecord
    /\ Len(last.rec.inner) = 2
    /\ resolve(INTERNER, last.rec.inner[1].token.value.sym)
            = C22_Resolved(<<"1", "2">>)
    /\ resolve(INTERNER, last.rec.inner[2].token.value.sym)
            = C22_Resolved(<<"0", "x", "a">>)

(***************************************************************************)
(* C25: the length of the record of a line is the number of its            *)
(* ASCII-whitespace-separated atoms, also when atoms repeat or one atom is *)
(* a part of another, and the borrowing iteration yields that many tokens. *)
(***************************************************************************)
C25_LengthPreserved ==
    HasRecord =>
        /\ Record_len(last.rec) = Cardinality(AtomStarts(last.arg))
        /\ Len(RefIterator_collect(last.rec, 0))
                = Cardinality(AtomStarts(last.arg))
        /\ \A k \in 1..Len(RefIterator_collect(last.rec, 0)) :
                RefIterator_collect(last.rec, 0)[k] = last.rec.inner[k].token

\* the record of "aa a aaa": three atoms, each a part of the last one
C25_Witness ==
    /\ HasRecord
    /\ last.arg = <<"a", "a", " ", "a", " ", "a", "a", "a">>
    /\ Record_len(last.rec) = 3

(***************************************************************************)
(* C26: the tokens of the rendered record are the tokens of the record     *)
(* (the same symbols in the same order, no new string interned), rendering *)
(* the re-tokenized text gives the text again, and a line whose atoms are  *)
(* separated by single spaces, without leading or trailing whitespace,     *)
(* renders to itself.                                                      *)
(***************************************************************************)
C26_TokensOf(ts) == [k \in 1..Len(ts) |-> ts[k].token]

C26_SingleSpaced(line) ==
    /\ \A i \in 1..Len(line) :
            line[i] \in AsciiWhitespace =>
                /\ line[i] = " "
                /\ i > 1 /\ i < Len(line)
                /\ line[i - 1] \notin AsciiWhitespace

C26_RenderRoundTrip ==
    (last.op = "to_string") =>
        LET again == from_unicode_line(last.text, INTERNER)
        IN /\ C26_TokensOf(again.inner) = C26_TokensOf(last.rec.inner)
           /\ again.table = INTERNER
           /\ TokenStream_to_string(again.inner, INTERNER)
                = [ret |-> "Ok", text |-> last.text]
           /\ C26_SingleSpaced(last.arg) => (last.text = last.arg)

\* a rendered line of three atoms separated by single spaces, and a
\* rendered line whose text differs from the line
C26_Witness ==
    /\ last.op = "to_string"
    /\ last.arg = <<"a", " ", "a", " ", "a">>
    /\ last.text = last.arg

C26_WitnessNormalised ==
    /\ last.op = "to_string"
    /\ last.arg = <<" ", "a", " ", "\t", "a", " ">>
    /\ last.text = <<"a", " ", " ", "a">>

(***************************************************************************)
(* C27: the rendering of the record of a line is a prefix of the line, or  *)
(* is the line with its trailing whitespace removed, for every line: also  *)
(* with leading whitespace, tabs between atoms, runs of several spaces.    *)
(***************************************************************************)
C27_IsPrefix(p, line) ==
    /\ Len(p) <= Len(line)
    /\ SubSeq(line, 1, Len(p)) = p

\* the line without its trailing whitespace
C27_TrimEnd(line) ==
    LET keep == {n \in 0..Len(line) :
                    \A i \in (n + 1)..Len(line) : line[i] \in AsciiWhitespace}
        n == CHOOSE m \in keep : \A o \in keep : m <= o
    IN SubSeq(line, 1, n)

C27_RenderIsPrefixOrTrimmed ==
    (last.op = "to_string") =>
        \/ C27_IsPrefix(last.text, last.arg)
        \/ last.text = C27_TrimEnd(last.arg)

(***************************************************************************)
(* C28: in the stream built from a line every offset has start < end, the  *)
(* end of a token is at most the start of the next one, the characters of  *)
(* the line from start to end are the text of the token, and the k-th      *)
(* token is bound to the k-th atom of the line, so a repeated atom binds   *)
(* to its successive occurrences.                                          *)
(***************************************************************************)
C28_Offsets ==
    HasRecord =>
        LET inner == last.rec.inner
            starts == SetToSeq(AtomStarts(last.arg))
        IN /\ \A k \in 1..Len(inner) :
                /\ inner[k].offset.start < inner[k].offset.end
                /\ inner[k].offset.end <= Len(last.arg)
                /\ C22_Resolved(SubSeq(last.arg, inner[k].offset.start + 1,
                                       inner[k].offset.end))
                        = resolve(INTERNER, inner[k].token.value.sym)
                /\ k <= Len(starts)
                /\ inner[k].offset.start + 1 = starts[k]
           /\ \A k \in 1..(Len(inner) - 1) :
                /\ inner[k].offset.end <= inner[k + 1].offset.start
                /\ inner[k].offset.start < inner[k + 1].offset.start

\* "a a a": the same atom three times, bound at 0, 2 and 4
C28_Witness ==
    /\ HasRecord
    /\ last.arg = <<"a", " ", "a", " ", "a">>
    /\ Len(last.rec.inner) = 3
    /\ last.rec.inner[1].token = last.rec.inner[2].token
    /\ last.rec.inner[2].token = last.rec.inner[3].token
    /\ last.rec.inner[1].offset = [start |-> 0, end |-> 1]
    /\ last.rec.inner[2].offset = [start |-> 2, end |-> 3]
    /\ last.rec.inner[3].offset = [start |-> 4, end |-> 5]

(***************************************************************************)
(* C29: the token returned by Token::from_parse is determined by the set M *)
(* of classes that match: Value(String) for no match, TypedMatch(v) for    *)
(* M = {v}, the listed winner for the listed sets of two and three         *)
(* classes, Wildcard for every other set of two or three classes and for   *)
(* every set of four or more, for each of the subsets of the 11 classes.   *)
(***************************************************************************)
\* the classes named by a set of pattern indices
C29_Classes(matches) == {GROKKER_VARIANTS[i + 1] : i \in matches}

\* the listed sets and their winners
C29_Winners ==
    <<  <<{"UUID", "Hostname"}, "UUID">>,
        <<{"Base10Integer", "Base16Integer"}, "Base10Integer">>,
        <<{"Base10Float", "Base16Float"}, "Base10Float">>,
        <<{"Base16Integer", "Hostname"}, "Base16Integer">>,
        <<{"Base16Float", "Hostname"}, "Base16Float">>,
        <<{"Base10Integer", "Base16Integer", "Hostname"}, "Base10Integer">>,
        <<{"Base10Float", "Base16Float", "Hostname"}, "Base10Float">> >>

C29_Listed(M) == \E k \in 1..Len(C29_Winners) : C29_Winners[k][1] = M

C29_Winner(M) ==
    C29_Winners[CHOOSE k \in 1..Len(C29_Winners) : C29_Winners[k][1] = M][2]

C29_Arbitration ==
    (last.op = "Token::from_parse") =>
        LET M == C29_Classes(last.matches)
        IN /\ Cardinality(M) = Cardinality(last.matches)
           /\ (M = {}) =>
                /\ last.token.kind = "Value"
                /\ last.token.value.kind = "String"
                /\ resolve(INTERNER, last.token.value.sym)
                        = C22_Resolved(last.arg)
           /\ (Cardinality(M) = 1) =>
                /\ last.token.kind = "TypedMatch"
                /\ M = {last.token.grokker}
           /\ (Cardinality(M) \in {2, 3} /\ C29_Listed(M)) =>
                last.token = TypedMatch(C29_Winner(M))
           /\ (Cardinality(M) \in {2, 3} /\ ~C29_Listed(M)) =>
                last.token = Wildcard
           /\ (Cardinality(M) >= 4) => last.token = Wildcard
           /\ (M # {}) => INTERNER = <<>>

\* a hexadecimal word that is also a host name is classified as a number
C29_Witness ==
    /\ last.op = "Token::from_parse"
    /\ C29_Classes(last.matches) = {"Base16Integer", "Hostname"}
    /\ last.token = TypedMatch("Base16Integer")

\* an unlisted set of three classes and the set of all classes are Wildcard
C29_WitnessWildcard ==
    /\ last.op = "Token::from_parse"
    /\ C29_Classes(last.matches) = {"Base16Integer", "Hostname", "Month"}
    /\ last.token = Wildcard

(***************************************************************************)
(* C30: for all records A and B, of equal or different lengths, with or    *)
(* without wildcards in B, 0 <= A.calc_sim_score(B) <= min(A.len(),        *)
(* B.len()).                                                               *)
(***************************************************************************)
\* the records the index has seen or holds: the records of the processed
\* lines, the examples and the templates of the groups
C30_Records ==
    C15_Records \cup {GroupAt(drain, p).event : p \in Places(drain)}

C30_HasWildcard(rec) ==
    \E k \in 1..Len(rec.inner) : rec.inner[k].token = Wildcard

C30_SimilarityBound ==
    \A A \in C30_Records : \A B \in C30_Records :
        /\ calc_sim_score(A, B) >= 0
        /\ calc_sim_score(A, B) <= Record_len(A)
        /\ calc_sim_score(A, B) <= Record_len(B)

\* a record of two atoms that agrees with a longer template with a
\* wildcard on every position they share, and a record of the template's
\* length that agrees with it on some positions only
C30_Witness ==
    \E A \in C30_Records : \E B \in C30_Records : \E C \in C30_Records :
        /\ C30_HasWildcard(B)
        /\ Record_len(A) < Record_len(B)
        /\ calc_sim_score(A, B) = Record_len(A)
        /\ Record_len(C) = Record_len(B)
        /\ calc_sim_score(C, B) > 0
        /\ calc_sim_score(C, B) < Record_len(B)

(***************************************************************************)
(* C23: resolve and the intern-hit path (tokenizing a line whose atoms are *)
(* all in the table already) hold the interner lock for reading only; a    *)
(* call holds it for writing only when it interns a string for the first   *)
(* time.                                                                   *)
(***************************************************************************)
\* the call would add a string to the table as it stands
C23_InternsNew(call) ==
    IF call.op = "from_unicode_line"
    THEN from_unicode_line(call.arg, INTERNER).table # INTERNER
    ELSE IF call.op = "TypedToken::from_parse"
    THEN TypedToken_from_parse(call.arg, INTERNER).table # INTERNER
    ELSE FALSE

C23_LockDiscipline ==
    \A t \in Threads :
        (pc[t].at = "locked") =>
            /\ (lock.writer = t) <=> C23_InternsNew(pc[t])
            /\ (t \in lock.readers) <=> ~C23_InternsNew(pc[t])

\* what does hold: resolve holds the lock for reading, and two resolving
\* threads hold it together
C23_ResolveReads ==
    \A t \in Threads :
        (pc[t].at = "locked" /\ pc[t].op = "Record::resolve") =>
            (t \in lock.readers /\ lock.writer # t)

C23_ReadersTogether ==
    /\ pc[1].at = "locked" /\ pc[1].op = "Record::resolve"
    /\ pc[2].at = "locked" /\ pc[2].op = "Record::resolve"
    /\ lock.readers = {1, 2}

\* a thread that tokenizes a line of atoms seen before holds the lock for
\* writing and a thread that wants to resolve a symbol waits for it
C23_HitBlocksReader ==
    /\ pc[1].at = "locked" /\ pc[1].op = "from_unicode_line"
    /\ ~C23_InternsNew(pc[1])
    /\ lock.writer = 1
    /\ pc[2].at = "waiting" /\ pc[2].op = "Record::resolve"
    /\ ~ENABLED Acquire(2)

(***************************************************************************)
(* C31: for two records built from lines whose first k atoms are the same, *)
(* calc_sim_score is at least k and is the same in both argument orders;   *)
(* when all later atoms differ pairwise the score is exactly k.            *)
(***************************************************************************)
\* the atom at 1-based place i of a record built from a line
C31_Atom(rec, i) == resolve(INTERNER, rec.inner[i].token.value.sym)

\* the number of leading atoms two records built from lines have in common
C31_CommonPrefix(A, B) ==
    LET m == Min(Len(A.inner), Len(B.inner))
        agree == {n \in 0..m :
                    \A i \in 1..n : C31_Atom(A, i) = C31_Atom(B, i)}
    IN CHOOSE n \in agree : \A o \in agree : o <= n

C31_LaterDiffer(A, B) ==
    \A i \in (C31_CommonPrefix(A, B) + 1)..Min(Len(A.inner), Len(B.inner)) :
        C31_Atom(A, i) # C31_Atom(B, i)

C31_CommonPrefixScore ==
    \A A \in C15_Records : \A B \in C15_Records :
        /\ calc_sim_score(A, B) >= C31_CommonPrefix(A, B)
        /\ calc_sim_score(A, B) = calc_sim_score(B, A)
        /\ C31_LaterDiffer(A, B) =>
                (calc_sim_score(A, B) = C31_CommonPrefix(A, B))

\* the records of the two 7-atom lines, which share six atoms, and two
\* records with a common prefix whose score is larger than the prefix
C31_Witness ==
    \E A \in C15_Records : \E B \in C15_Records :
        /\ Len(A.inner) = 7 /\ Len(B.inner) = 7
        /\ C31_CommonPrefix(A, B) = 6
        /\ C31_LaterDiffer(A, B)
        /\ calc_sim_score(A, B) = 6

C31_WitnessLaterAgree ==
    \E A \in C15_Records : \E B \in C15_Records :
        /\ C31_CommonPrefix(A, B) >= 1
        /\ ~C31_LaterDiffer(A, B)
        /\ calc_sim_score(A, B) > C31_CommonPrefix(A, B)

(***************************************************************************)
(* C32: a TypedMatch(g) token equals a Value(v) token, in either order, if *)
(* and only if the atom of v is classified as class g by the arbitration.  *)
(***************************************************************************)
\* the Value token tokenization builds for the atom that was classified
C32_ValueOf(input) == word_token(input, get_or_intern(INTERNER, input).sym)

C32_TypedEquality ==
    (last.op = "Token::from_parse") =>
        \A g \in Grokker :
            /\ Token_eq(TypedMatch(g), C32_ValueOf(last.arg))
                    <=> (last.token = TypedMatch(g))
            /\ Token_eq(C32_ValueOf(last.arg), TypedMatch(g))
                    <=> (last.token = TypedMatch(g))

(***************************************************************************)
(* C33: in every reachable state, for every group, every example of the    *)
(* group and every position that is not a key of variables, the token of   *)
(* the example at the position equals the token of the template there.     *)
(***************************************************************************)
C33_Covers(g) ==
    \A k \in 1..Len(g.examples) :
        /\ Record_len(g.examples[k]) = Record_len(g.event)
        /\ \A pos \in 0..(Record_len(g.event) - 1) :
                (pos \notin DOMAIN g.variables) =>
                    Token_eq(get_token_at_index(g.examples[k].inner, pos),
                             get_token_at_index(g.event.inner, pos))

C33_TemplateCoversExamples ==
    \A p \in Places(drain) : C33_Covers(GroupAt(drain, p))

\* a group whose examples made two positions variables one after the
\* other, and whose first example differs from the second at a variable
C33_Witness ==
    \E p \in Places(drain) :
        LET g == GroupAt(drain, p)
        IN /\ Len(g.examples) >= 2
           /\ Cardinality(DOMAIN g.variables) >= 2
           /\ \E pos \in DOMAIN g.variables :
                g.examples[1].inner[pos + 1].token
                    # g.examples[2].inner[pos + 1].token
           /\ \E pos \in 0..(Record_len(g.event) - 1) :
                pos \notin DOMAIN g.variables

(***************************************************************************)
(* C34: when the threshold t is not changed after construction or after    *)
(* one initial set_threshold, every group with at least one example has    *)
(* (L - |variables|) / L > t, L being the length of the template; with the *)
(* default threshold fewer than half of the positions are wildcards.       *)
(***************************************************************************)
C34_Bounded(g) ==
    LET L == Record_len(g.event)
        V == Cardinality(DOMAIN g.variables)
    IN /\ L > 0
       /\ (L - V) * drain.threshold.denom > drain.threshold.numer * L
       /\ (drain.threshold = Ratio_new(1, 2)) => (2 * V < L)

C34_BoundedGeneralization ==
    \A p \in Places(drain) :
        (Len(GroupAt(drain, p).examples) >= 1) => C34_Bounded(GroupAt(drain, p))

\* under the threshold 0 a template of three positions has two wildcards;
\* under the default threshold a template of seven positions has one
C34_Witness ==
    /\ drain.threshold = Ratio_new(0, 1)
    /\ \E p \in Places(drain) :
            /\ Record_len(GroupAt(drain, p).event) = 3
            /\ Cardinality(DOMAIN GroupAt(drain, p).variables) = 2

C34_WitnessDefault ==
    /\ drain.threshold = Ratio_new(1, 2)
    /\ \E p \in Places(drain) :
            /\ Record_len(GroupAt(drain, p).event) = 7
            /\ Cardinality(DOMAIN GroupAt(drain, p).variables) = 1

(***************************************************************************)
(* C35: with the threshold fixed at a value below 1, processing a line     *)
(* with at least one atom that the index has processed before, after any   *)
(* other lines, returns Ok(false) and creates no group.                    *)
(***************************************************************************)
\* the index has processed the line: one of the records built from the
\* processed lines has the tokens and offsets of the record of the line
C35_Processed(line) ==
    \E rec \in C15_Records : rec.inner = RecordOf(line).inner

C35_Step ==
    (/\ IsProcessLine
     /\ NumAtoms(last'.arg) >= 1
     /\ drain.threshold.numer < drain.threshold.denom
     /\ C35_Processed(last'.arg))
    => (/\ last'.ret = "Ok(false)"
        /\ NumGroups(drain') = NumGroups(drain)
        /\ NumExamples(drain') = NumExamples(drain) + 1)

C35_ReprocessingAbsorbed == [][C35_Step]_vars

\* a line created a group, another line made the template more general,
\* and the first line, processed again, became the second example
C35_Witness ==
    /\ last.op = "process_line"
    /\ last.ret = "Ok(false)"
    /\ \E p \in Places(drain) :
        LET g == GroupAt(drain, p)
        IN /\ Len(g.examples) = 2
           /\ g.examples[2].inner = origin[g.id]
           /\ g.examples[2].inner = RecordOf(last.arg).inner
           /\ g.examples[1].inner # origin[g.id]
           /\ DOMAIN g.variables # {}

(***************************************************************************)
(* C36: for every group of the index, in every reachable state, position 0 *)
(* is not a key of variables and the first token of the template is the    *)
(* concrete token whose symbol is the first-token key of the bucket; every *)
(* candidate group scored by process_line has a score of at least 1.       *)
(***************************************************************************)
C36_FirstConcrete ==
    \A p \in Places(drain) :
        LET g == GroupAt(drain, p)
        IN /\ 0 \notin DOMAIN g.variables
           /\ Record_len(g.event) >= 1
           /\ get_token_at_index(g.event.inner, 0)
                    = Value(TypedToken_String(p[2]))

\* the groups process_line scores are those of the bucket of the record
C36_Step ==
    (IsProcessLine /\ NumAtoms(last'.arg) >= 1) =>
        LET rec == RecordOf(last'.arg)
            len == Record_len(rec)
            fst == Record_first(rec, INTERNER').sym
        IN HasBucket(drain, len, fst) =>
            \A k \in 1..Len(Bucket(drain, len, fst)) :
                calc_sim_score(rec, Bucket(drain, len, fst)[k].event) >= 1

C36_FirstTokenNeverGeneralized == []C36_FirstConcrete /\ [][C36_Step]_vars

\* a group that has variables at every position but the first, and a
\* record that was scored against it
C36_Witness ==
    /\ last.op = "process_line"
    /\ \E p \in Places(drain) :
        LET g == GroupAt(drain, p)
        IN /\ Record_len(g.event) = 3
           /\ DOMAIN g.variables = {1, 2}
           /\ Record_len(RecordOf(last.arg)) = 3
           /\ Record_first(RecordOf(last.arg), INTERNER).sym = p[2]
           /\ calc_sim_score(RecordOf(last.arg), g.event) = 1

(***************************************************************************)
(* C37: a process_line call on a line with L tokens and first token K      *)
(* changes nothing outside bucket (L, K); inside the bucket every group    *)
(* other than the winning group (on absorption), or every existing group   *)
(* (on creation), keeps its template, variables, examples and id; the      *)
(* threshold and the domain patterns are not changed by process_line.      *)
(***************************************************************************)
C37_InBucket(p, len, fst) == p[1] = len /\ p[2] = fst

C37_Step ==
    IsProcessLine =>
        /\ drain'.threshold = drain.threshold
        /\ drain'.domain = drain.domain
        /\ (NumAtoms(last'.arg) = 0) => (drain' = drain)
        /\ (NumAtoms(last'.arg) >= 1) =>
            LET rec == RecordOf(last'.arg)
                len == Record_len(rec)
                fst == Record_first(rec, INTERNER').sym
            IN /\ \A p \in Places(drain) :
                    ~C37_InBucket(p, len, fst) =>
                        /\ p \in Places(drain')
                        /\ GroupAt(drain', p) = GroupAt(drain, p)
               /\ \A p \in Places(drain') :
                    ~C37_InBucket(p, len, fst) => p \in Places(drain)
               /\ DOMAIN drain'.base_layer = DOMAIN drain.base_layer \cup {len}
               /\ \A l \in DOMAIN drain.base_layer :
                    DOMAIN drain'.base_layer[l] =
                        DOMAIN drain.base_layer[l]
                            \cup (IF l = len THEN {fst} ELSE {})
               /\ (last'.ret = "Ok(true)") =>
                    \A p \in Places(drain) :
                        /\ p \in Places(drain')
                        /\ GroupAt(drain', p) = GroupAt(drain, p)
               /\ (last'.ret = "Ok(false)") =>
                    /\ Places(drain') = Places(drain)
                    /\ \E w \in Places(drain) :
                        /\ C37_InBucket(w, len, fst)
                        /\ GroupAt(drain', w).id = GroupAt(drain, w).id
                        /\ \A p \in Places(drain) \ {w} :
                                GroupAt(drain', p) = GroupAt(drain, p)

C37_ProcessLineFrame == [][C37_Step]_vars

\* an absorption in a bucket of two groups, with a group in another bucket
\* of the same length and a group of another length
C37_Witness ==
    /\ last.op = "process_line"
    /\ last.ret = "Ok(false)"
    /\ \E p \in Places(drain) : \E q \in Places(drain) :
            /\ p[1] = q[1] /\ p[2] = q[2] /\ p[3] # q[3]
            /\ Record_len(RecordOf(last.arg)) = p[1]
            /\ Record_first(RecordOf(last.arg), INTERNER).sym = p[2]

C37_WitnessOtherBuckets ==
    /\ last.op = "process_line"
    /\ \E p \in Places(drain) : \E q \in Places(drain) :
            /\ p[1] # q[1]
            /\ Record_len(RecordOf(last.arg)) = p[1]
            /\ GroupAt(drain, q).examples # <<>>


(***************************************************************************)
(* C38: when several threads, each with its own index, call process_line   *)
(* concurrently on the one interner, then in every interleaving equal      *)
(* atoms have the same symbol and different atoms have different symbols   *)
(* across all threads, no string is interned twice, and every symbol       *)
(* stored in a record resolves to the atom of the line it was created      *)
(* from.                                                                   *)
(***************************************************************************)
\* the records thread t holds: the templates and examples of its index and
\* the record of its call in flight
C38_Records(t) ==
    UNION {LET g == GroupAt(pc[t].drain, p)
           IN {g.event} \cup {g.examples[k] : k \in 1..Len(g.examples)} :
           p \in Places(pc[t].drain)}
    \cup (IF pc[t].op = "calc_sim_score" THEN {pc[t].work} ELSE {})

\* the tokens of all records of all threads, each with the atom of the
\* line at its offset
C38_Stored ==
    UNION {UNION {{[token |-> rec.inner[i].token,
                    start |-> rec.inner[i].offset.start + 1,
                    line |-> pc[t].built[rec.uid]] :
                        i \in 1..Len(rec.inner)} :
                  rec \in C38_Records(t)} :
           t \in Threads}

C38_WellFormed(x) ==
    /\ x.token.kind = "Value"
    /\ x.token.value.kind = "String"
    /\ x.start \in AtomStarts(x.line)

C38_InternerConsistent ==
    /\ \A i \in 1..Len(INTERNER) : \A j \in 1..Len(INTERNER) :
            (INTERNER[i] = INTERNER[j]) => (i = j)
    /\ \A t \in Threads : \A rec \in C38_Records(t) :
            Len(rec.inner) = Cardinality(AtomStarts(pc[t].built[rec.uid]))
    /\ \A x \in C38_Stored :
            /\ C38_WellFormed(x)
            /\ resolve(INTERNER, x.token.value.sym)
                    = C22_Resolved(AtomText(x.line, x.start))
    /\ \A x \in C38_Stored : \A y \in C38_Stored :
            (AtomText(x.line, x.start) = AtomText(y.line, y.start))
                <=> (x.token.value.sym = y.token.value.sym)

\* two threads are each in a process_line call, past the tokenization of
\* two different lines that share their two atoms
C38_Witness ==
    \E t \in Threads : \E u \in Threads \ {t} :
        /\ pc[t].at = "classify"
        /\ pc[u].at = "classify"
        /\ pc[t].arg # pc[u].arg
        /\ Len(pc[t].work.inner) = 2
        /\ Len(pc[u].work.inner) = 2
        /\ Len(INTERNER) = 2
        /\ pc[t].work.inner[1].token = pc[u].work.inner[2].token
        /\ pc[t].work.inner[2].token = pc[u].work.inner[1].token


(***************************************************************************)
(* C39: no thread asks for the interner lock, for reading or for writing,  *)
(* while it holds the lock itself, in process_line (Record::new,           *)
(* Record::first, the search of the bucket), in the rendering of a token   *)
(* or in the initialisers of the "*" and Grokker symbols; so every call a  *)
(* thread has begun, also while other threads run calls on their own       *)
(* indexes, ends with the lock released by that thread.  A process_line    *)
(* call ends when it returns or when first().expect(..) panics, which is   *)
(* after from_unicode_line has dropped its guard.                          *)
(***************************************************************************)
C39_Holds(t) == lock.writer = t \/ t \in lock.readers

C39_InCall(t) == pc[t].at \notin {"idle", "panicked"}

\* a thread that waits for the lock, or for the initialiser that another
\* thread runs, holds no guard
C39_NoReacquire ==
    \A t \in Threads :
        (pc[t].at \in {"waiting", "once_wait"}) => ~C39_Holds(t)

C39_CallEnds(t) == C39_InCall(t) ~> (~C39_InCall(t) /\ ~C39_Holds(t))

C39_NoSelfDeadlock ==
    /\ []C39_NoReacquire
    /\ \A t \in Threads : C39_CallEnds(t)

\* a thread has returned from a process_line call that created a group
\* while another thread, in a process_line call of its own, waits for the
\* lock
C39_Witness ==
    /\ last.op = "process_line"
    /\ last.ret = "Ok(true)"
    /\ pc[last.thread].at = "idle"
    /\ NumGroups(pc[last.thread].drain) = 1
    /\ ~C39_Holds(last.thread)
    /\ \E u \in Threads \ {last.thread} :
            /\ pc[u].at = "waiting"
            /\ pc[u].op = "process_line"

====
